---- MODULE Spec2Model ----
(***************************************************************************)
(* ralph-loop: the plan document (parser, writer), the result evaluation   *)
(* and the orchestration loop, as a state machine.                         *)
(*                                                                         *)
(* A document is the sequence of its lines (strings.Split(content, "\n")). *)
(* A line is a record [kind, n, s, m]: kind says which of the parser's     *)
(* regular expressions the line matches, n is its number (step label,      *)
(* block number, retries, timestamp), s its free text, m its checkbox      *)
(* marker.  A transcript is the sequence of the lines the agent printed.   *)
(***************************************************************************)
EXTENDS Integers, Sequences, FiniteSets, TLC

VARIABLES
    doc,          \* the plan file: its lines
    clock,        \* the wall clock: the last reading of time.Now()
    pc,           \* where runLoop is: "top", "backoff", "invoking", "returned", "exit"
    ret,          \* what runLoop returned: "none" while running
    ctxDone,      \* the run context is cancelled (operator interrupt received)
    stepCtxErr,   \* stepCtx.Err(): "nil", "DeadlineExceeded" or "Canceled"
    step,         \* the step NextStep selected in this iteration, as parsed
    output,       \* the transcript agent.Run returned
    runErr,       \* the error agent.Run returned: "nil", "ctx" (stepCtx.Err()), "launch"
    config,       \* the runner's Config
    delay,        \* the last delay calculateBackoff computed
    retryCount,   \* the argument of the last calculateBackoff call
    lastUpdate,   \* history: the last UpdateStep call and the step it was made for
    docBefore,    \* history: the document when the invocation in flight started
    invoked,      \* history: invocations started per step number (saturating)
    failedInRun,  \* history: step numbers with a failed or timed-out attempt in this run
    waited,       \* history: this iteration waited for the backoff delay
    interruptedAt, \* history: pc at which the operator interrupt arrived
    applied,      \* history: the step numbers results were applied to, in the
                  \* writer's own specifications
    plan,         \* the Plan Parse returned, in the parser's own specification
    promptText,   \* the prompt prompt.Build made for the invocation in flight
    pd,           \* the PromptDetector: recentLines, lastLineAt, warned,
                  \* checkTicker (the time of its next tick), done
    stream        \* the invocation a PromptDetector observes: the lines of the
                  \* process, the transcript collected, the last Write, the
                  \* advisories printed on the console since the step started

vars == <<doc, clock, pc, ret, ctxDone, stepCtxErr, step, output, runErr, config, delay,
          retryCount, lastUpdate, docBefore, invoked, failedInRun, waited,
          interruptedAt, applied, plan, promptText, pd, stream>>

(***************************************************************************)
(* Bounds of the model.                                                    *)
(***************************************************************************)
MaxSteps == 2        \* checkbox lines in an initial document
MaxTime == 1         \* the wall clock reads 1..MaxTime
MaxDelay == 4        \* RetryDelay values drawn for calculateBackoff, in ticks
MaxRetryCount == 4   \* retry counts drawn for calculateBackoff
MaxPlanLen == 3      \* steps of a plan drawn for NextStep and IsComplete
MaxOutLen == 3       \* lines of a transcript drawn for ParseResult

Min(a, b) == IF a < b THEN a ELSE b

(***************************************************************************)
(* Lines of a plan document.                                               *)
(***************************************************************************)
Line(kind, n, s, m) == [kind |-> kind, n |-> n, s |-> s, m |-> m]

TitleLine(name)        == Line("title", 0, name, "")      \* # Project: <name>
ContextHeader          == Line("ctxhdr", 0, "Context", "") \* ## Context
SectionLine(name)      == Line("section", 0, name, "")    \* ## <name>
StepLine(m, label, d)  == Line("step", label, d, m)       \* - [m] Step <label>: <d>
BlockHeader(n)         == Line("blockhdr", n, "", "")     \* ### Step <n>
BadBlockHeader(s)      == Line("badhdr", 0, s, "")        \* ### Step<s>, no number
StatusLine(w)          == Line("status", 0, w, "")        \* **Status**: <w>
LastRunLine(t)         == Line("lastrun", t, "", "")      \* **Last Run**: <t>
NotesLine(txt)         == Line("notes", 0, txt, "")       \* **Notes**: <txt>
RetriesLine(n)         == Line("retries", n, "", "")      \* **Retries**: <n>
BlankLine              == Line("blank", 0, "", "")        \* empty or white space
TextLine(s)            == Line("text", 0, s, "")          \* anything else
HeadingLine(s)         == Line("heading", 0, s, "")       \* other line starting with #
LongLine               == Line("toolong", 0, "", "")      \* text of 64 KiB or more

\* Timestamps of a Last Run line: NotAvailable is the literal N/A, Malformed a
\* text time.Parse rejects, t >= 1 a time in the layout 2006-01-02 15:04:05.
NotAvailable == 0
Malformed == -1

stepLineRegex(line)       == line.kind = "step"
projectNameRegex(line)    == line.kind = "title"
notesSectionRegex(line)   == line.kind = "blockhdr"
statusRegex(line)         == line.kind = "status"
lastRunRegex(line)        == line.kind = "lastrun"
notesRegex(line)          == line.kind = "notes"
retriesRegex(line)        == line.kind = "retries"
contextSectionRegex(line) == line.kind = "ctxhdr"
sectionHeaderRegex(line)  == line.kind \in {"ctxhdr", "section"}

\* strings.HasPrefix(line, "#"), (line, "### Step"), (line, "## Notes")
HasPrefixHash(line)     == line.kind \in {"title", "ctxhdr", "section", "blockhdr",
                                          "badhdr", "heading"}
HasPrefixStepHdr(line)  == line.kind \in {"blockhdr", "badhdr"}
HasPrefixNotesHdr(line) == line.kind = "section" /\ line.s = "Notes"
IsBlank(line)           == line.kind = "blank"

(***************************************************************************)
(* The document model (types.go).                                          *)
(***************************************************************************)
StatusPending   == "pending"
StatusCompleted == "completed"
StatusFailed    == "failed"
StatusSkipped   == "skipped"

parseCheckbox(marker) ==
    CASE marker = "x" -> StatusCompleted
      [] marker = "!" -> StatusFailed
      [] marker = "-" -> StatusSkipped
      [] OTHER -> StatusPending

NoStep == [Number |-> 0, Description |-> "", Status |-> "", LastRun |-> 0,
           Notes |-> "", RetryCount |-> 0]

RECURSIVE FirstOpen(_, _)
FirstOpen(steps, i) ==
    IF i > Len(steps) THEN 0
    ELSE IF steps[i].Status \in {StatusPending, StatusFailed} THEN i
    ELSE FirstOpen(steps, i + 1)

RECURSIVE FirstWith(_, _, _)
FirstWith(steps, i, status) ==
    IF i > Len(steps) THEN 0
    ELSE IF steps[i].Status = status THEN i
    ELSE FirstWith(steps, i + 1, status)

\* mutant: pending steps are preferred to failed ones
NextStepPendingFirst(p) ==
    LET i == FirstWith(p.Steps, 1, StatusPending)
        j == FirstWith(p.Steps, 1, StatusFailed)
    IN  IF i # 0 THEN p.Steps[i] ELSE IF j # 0 THEN p.Steps[j] ELSE NoStep

\* mutant: failed steps are never selected
NextStepPendingOnly(p) ==
    LET i == FirstWith(p.Steps, 1, StatusPending)
    IN  IF i # 0 THEN p.Steps[i] ELSE NoStep

\* Plan.NextStep: the first pending or failed step, NoStep for nil
NextStep(p) ==
    LET i == FirstOpen(p.Steps, 1) IN IF i = 0 THEN NoStep ELSE p.Steps[i]

\* mutant: the check for an empty plan is missing
IsCompleteVacuous(p) ==
    \A i \in 1..Len(p.Steps) : p.Steps[i].Status \in {StatusCompleted, StatusSkipped}

\* Plan.IsComplete
IsComplete(p) ==
    /\ \A i \in 1..Len(p.Steps) : p.Steps[i].Status \in {StatusCompleted, StatusSkipped}
    /\ Len(p.Steps) > 0

(***************************************************************************)
(* The parser (parser.go).                                                 *)
(***************************************************************************)
RECURSIVE DropLeadingBlank(_)
DropLeadingBlank(ls) ==
    IF ls # <<>> /\ IsBlank(Head(ls)) THEN DropLeadingBlank(Tail(ls)) ELSE ls

RECURSIVE DropTrailingBlank(_)
DropTrailingBlank(ls) ==
    IF ls # <<>> /\ IsBlank(ls[Len(ls)])
    THEN DropTrailingBlank(SubSeq(ls, 1, Len(ls) - 1)) ELSE ls

\* strings.TrimSpace(strings.Join(contextLines, "\n")), as lines
TrimSpaceLines(ls) == DropTrailingBlank(DropLeadingBlank(ls))

EmptyNotes == [status |-> "", lastRun |-> NotAvailable, notes |-> "", retryCount |-> 0]

ScanInit == [ProjectName |-> "", Context |-> <<>>, Steps |-> <<>>,
             stepNumber |-> 0, notesMap |-> <<>>,
             currentNoteStep |-> 0, inNotesSection |-> FALSE,
             inContextSection |-> FALSE, contextLines |-> <<>>]

\* notesMap is kept as a sequence of <<num, stepNotes>> pairs, one per key
RECURSIVE NotesOf(_, _)
NotesOf(map, num) ==
    IF map = <<>> THEN EmptyNotes
    ELSE IF Head(map)[1] = num THEN Head(map)[2] ELSE NotesOf(Tail(map), num)

HasNotes(map, num) == \E i \in 1..Len(map) : map[i][1] = num

SetNotes(map, num, notes) ==
    IF HasNotes(map, num)
    THEN [i \in 1..Len(map) |-> IF map[i][1] = num THEN <<num, notes>> ELSE map[i]]
    ELSE Append(map, <<num, notes>>)

\* mutant: a step takes the number of its label when it has one
ScanPlanLineByLabel(st, line) ==
    IF stepLineRegex(line)
    THEN [st EXCEPT !.stepNumber = @ + 1,
                    !.Steps = Append(@, [Number |-> IF line.n # 0 THEN line.n
                                                    ELSE st.stepNumber + 1,
                                         Description |-> line.s,
                                         Status |-> parseCheckbox(line.m),
                                         LastRun |-> 0, Notes |-> "",
                                         RetryCount |-> 0])]
    ELSE st

\* the body of Parse's scan loop from the step-line check on (lines 95-149)
ScanPlanLine(st, line) ==
    IF stepLineRegex(line)
    THEN [st EXCEPT !.stepNumber = @ + 1,
                    !.Steps = Append(@, [Number |-> st.stepNumber + 1,
                                         Description |-> line.s,
                                         Status |-> parseCheckbox(line.m),
                                         LastRun |-> 0, Notes |-> "",
                                         RetryCount |-> 0])]
    ELSE IF notesSectionRegex(line)
    THEN [st EXCEPT !.currentNoteStep = line.n,
                    !.inNotesSection = TRUE,
                    !.notesMap = IF HasNotes(@, line.n) THEN @
                                 ELSE Append(@, <<line.n, EmptyNotes>>)]
    ELSE IF st.inNotesSection /\ st.currentNoteStep > 0
    THEN LET cur == st.currentNoteStep
             notes == NotesOf(st.notesMap, cur)
         IN  IF statusRegex(line)
             THEN [st EXCEPT !.notesMap = SetNotes(@, cur, [notes EXCEPT !.status = line.s])]
             ELSE IF lastRunRegex(line)
             THEN [st EXCEPT !.notesMap = SetNotes(@, cur, [notes EXCEPT !.lastRun = line.n])]
             ELSE IF notesRegex(line)
             THEN [st EXCEPT !.notesMap = SetNotes(@, cur, [notes EXCEPT !.notes = line.s])]
             ELSE IF retriesRegex(line)
             THEN [st EXCEPT !.notesMap = SetNotes(@, cur, [notes EXCEPT !.retryCount = line.n])]
             ELSE IF HasPrefixHash(line)
             THEN [st EXCEPT !.inNotesSection = FALSE, !.currentNoteStep = 0]
             ELSE st
    ELSE st

\* one iteration of Parse's scan loop (lines 66-150)
ScanLine(st, line) ==
    IF projectNameRegex(line) THEN [st EXCEPT !.ProjectName = line.s]
    ELSE IF contextSectionRegex(line) THEN [st EXCEPT !.inContextSection = TRUE]
    ELSE IF st.inContextSection /\ ~sectionHeaderRegex(line)
    THEN [st EXCEPT !.contextLines = Append(@, line)]
    ELSE IF st.inContextSection
    THEN ScanPlanLine([st EXCEPT !.Context = TrimSpaceLines(st.contextLines),
                                 !.inContextSection = FALSE,
                                 !.contextLines = <<>>], line)
    ELSE ScanPlanLine(st, line)

RECURSIVE Scan(_, _, _)
Scan(st, lines, i) ==
    IF i > Len(lines) THEN st ELSE Scan(ScanLine(st, lines[i]), lines, i + 1)

\* mutant: the Last Run value is taken as it stands, parsable or not
ApplyNotesAnyTimestamp(s, map) ==
    IF ~HasNotes(map, s.Number) THEN s
    ELSE LET notes == NotesOf(map, s.Number)
         IN  [s EXCEPT !.LastRun = notes.lastRun,
                       !.Notes = IF notes.notes # "(none)" THEN notes.notes ELSE "",
                       !.RetryCount = notes.retryCount]

\* "Apply notes to steps" (lines 156-170)
ApplyNotes(s, map) ==
    IF ~HasNotes(map, s.Number) THEN s
    ELSE LET notes == NotesOf(map, s.Number)
         IN  [s EXCEPT !.LastRun = IF notes.lastRun >= 1 THEN notes.lastRun ELSE 0,
                       !.Notes = IF notes.notes # "(none)" THEN notes.notes ELSE "",
                       !.RetryCount = notes.retryCount]

\* scanner.Err() (lines 152-154): bufio.Scanner gives up at a line that does
\* not fit its buffer of 64 KiB
ScanErr(content) == \E i \in 1..Len(content) : content[i].kind = "toolong"

\* the Plan before anything is parsed
NoPlan == [ProjectName |-> "", Context |-> <<>>, Steps |-> <<>>]

\* Parse: the Plan of a document
Parse(content) ==
    LET st == Scan(ScanInit, content, 1)
    IN  [ProjectName |-> st.ProjectName,
         Context |-> st.Context,
         Steps |-> [i \in 1..Len(st.Steps) |-> ApplyNotes(st.Steps[i], st.notesMap)]]

(***************************************************************************)
(* Transcripts and their evaluation (prompt/builder.go).                   *)
(* A transcript line, after strings.TrimSpace, is a record: s its text,    *)
(* exact: it equals STEP_COMPLETE; pfxFailed: it starts with STEP_FAILED:; *)
(* hasComplete, hasFailed: it contains the sentinel; r: the trimmed text   *)
(* after the first STEP_FAILED:; stepPfx: it starts with STEP_; long: it   *)
(* is longer than 100 characters.                                          *)
(***************************************************************************)
OutLine(s, exact, pfxFailed, hasComplete, hasFailed, r, stepPfx, long) ==
    [s |-> s, exact |-> exact, pfxFailed |-> pfxFailed, hasComplete |-> hasComplete,
     hasFailed |-> hasFailed, r |-> r, stepPfx |-> stepPfx, long |-> long]

OutBlank        == OutLine("", FALSE, FALSE, FALSE, FALSE, "", FALSE, FALSE)
OutText(s)      == OutLine(s, FALSE, FALSE, FALSE, FALSE, "", FALSE, FALSE)
OutLongText(s)  == OutLine(s, FALSE, FALSE, FALSE, FALSE, "", FALSE, TRUE)
OutComplete     == OutLine("STEP_COMPLETE", TRUE, FALSE, TRUE, FALSE, "", TRUE, FALSE)
OutFailed(r)    == OutLine("STEP_FAILED: " \o r, FALSE, TRUE, FALSE, TRUE, r, TRUE, FALSE)
OutEmbComplete(s) == OutLine(s \o " STEP_COMPLETE", FALSE, FALSE, TRUE, FALSE, "", FALSE, FALSE)
OutEmbFailed(s, r) == OutLine(s \o " STEP_FAILED: " \o r, FALSE, FALSE, FALSE, TRUE, r, FALSE, FALSE)
\* STEP_FAILED: <r>, where r mentions STEP_COMPLETE
OutFailedMentions(r) ==
    OutLine("STEP_FAILED: " \o r \o " STEP_COMPLETE", FALSE, TRUE, TRUE, TRUE,
            r \o " STEP_COMPLETE", TRUE, FALSE)
\* <s> STEP_COMPLETE or STEP_FAILED: <r>
OutEmbBoth(s, r) ==
    OutLine(s \o " STEP_COMPLETE or STEP_FAILED: " \o r, FALSE, FALSE, TRUE, TRUE, r,
            FALSE, FALSE)
\* STEP_FAILED with no colon: no sentinel
OutNoColon      == OutLine("STEP_FAILED", FALSE, FALSE, FALSE, FALSE, "", TRUE, FALSE)

\* strings.Split(output, "\n"): never the empty list
SplitOutput(out) == IF out = <<>> THEN <<OutBlank>> ELSE out

NoMarkerReason == "No STEP_COMPLETE or STEP_FAILED marker found in output"

StepResult(success, out, reason, status, retries) ==
    [Success |-> success, Output |-> out, Reason |-> reason, Status |-> status,
     RetryCount |-> retries]

RECURSIVE ScanResult(_, _, _)
ScanResult(out, lines, i) ==
    IF i < 1 THEN StepResult(FALSE, out, NoMarkerReason, "", 0)
    ELSE LET line == lines[i]
         IN  IF line.exact THEN StepResult(TRUE, out, "", "", 0)
             ELSE IF line.pfxFailed THEN StepResult(FALSE, out, line.r, "", 0)
             ELSE IF line.hasComplete THEN StepResult(TRUE, out, "", "", 0)
             ELSE IF line.hasFailed THEN StepResult(FALSE, out, line.r, "", 0)
             ELSE ScanResult(out, lines, i - 1)

\* mutant: the scan runs from the first line on
RECURSIVE ScanResultForward(_, _, _)
ScanResultForward(out, lines, i) ==
    IF i > Len(lines) THEN StepResult(FALSE, out, NoMarkerReason, "", 0)
    ELSE LET line == lines[i]
         IN  IF line.exact THEN StepResult(TRUE, out, "", "", 0)
             ELSE IF line.pfxFailed THEN StepResult(FALSE, out, line.r, "", 0)
             ELSE IF line.hasComplete THEN StepResult(TRUE, out, "", "", 0)
             ELSE IF line.hasFailed THEN StepResult(FALSE, out, line.r, "", 0)
             ELSE ScanResultForward(out, lines, i + 1)

ParseResultFromStart(out) == ScanResultForward(out, SplitOutput(out), 1)

\* mutant: a transcript without a marker is a success
ParseResultLenient(out) ==
    LET r == ScanResult(out, SplitOutput(out), Len(SplitOutput(out)))
    IN  IF r.Reason = NoMarkerReason THEN StepResult(TRUE, out, "", "", 0) ELSE r

\* ParseResult: the agent output's completion marker, scanning from the end
ParseResult(out) == ScanResult(out, SplitOutput(out), Len(SplitOutput(out)))

(***************************************************************************)
(* The writer (writer.go).                                                 *)
(***************************************************************************)
\* line[:97] + "..."
Truncate(s) == s \o "<cut at 97>..."

RECURSIVE LastMeaningful(_, _)
LastMeaningful(lines, i) ==
    IF i < 1 THEN "Completed successfully"
    ELSE IF lines[i].s # "" /\ ~lines[i].stepPfx
    THEN IF lines[i].long THEN Truncate(lines[i].s) ELSE lines[i].s
    ELSE LastMeaningful(lines, i - 1)

\* summarizeOutput: strings.Split never returns an empty list, so the
\* "(no output)" return of line 161 is not taken
summarizeOutput(out) ==
    LET lines == SplitOutput(out)
    IN  IF Len(lines) = 0 THEN "(no output)" ELSE LastMeaningful(lines, Len(lines))

\* the notes text of a result (lines 83-86 and 134-137)
NotesText(result) ==
    IF ~result.Success /\ result.Reason # ""
    THEN "Failed: " \o result.Reason
    ELSE summarizeOutput(result.Output)

\* the status word of a result (lines 75-78 and 130-133)
StatusWord(result) == IF result.Success THEN "completed" ELSE "failed"

\* the marker the first pass writes (lines 44-49): result.Status is not read
NewMarker(result) == IF result.Success THEN "x" ELSE "!"

\* regexp \[([ x!])\] replaced throughout a description text
ReplaceBoxes(s, marker) ==
    IF s \in {"tick [ ] here", "tick [x] here", "tick [!] here"}
    THEN "tick [" \o marker \o "] here" ELSE s

\* updateCheckbox: every [ ], [x], [!] of the line becomes [marker]; [-] is
\* not matched by the expression
updateCheckbox(line, marker) ==
    [line EXCEPT !.m = IF @ \in {" ", "x", "!"} THEN marker ELSE @,
                 !.s = ReplaceBoxes(@, marker)]

\* number of step lines among lines[1..i]
RECURSIVE StepOrdinal(_, _)
StepOrdinal(lines, i) ==
    IF i = 0 THEN 0
    ELSE StepOrdinal(lines, i - 1) + (IF stepLineRegex(lines[i]) THEN 1 ELSE 0)

\* first pass (lines 38-58): the checkbox of the stepNum-th step line
FirstPass(lines, stepNum, result) ==
    [i \in 1..Len(lines) |->
        IF stepLineRegex(lines[i]) /\ StepOrdinal(lines, i) = stepNum
        THEN updateCheckbox(lines[i], NewMarker(result))
        ELSE lines[i]]

notesSectionExists(lines) == \E i \in 1..Len(lines) : notesSectionRegex(lines[i])

\* createNotesSectionForStep: the four lines of a new block
createNotesSectionForStep(stepNum, result, now) ==
    << BlockHeader(stepNum), StatusLine(StatusWord(result)), LastRunLine(now),
       NotesLine(NotesText(result)) >>

\* one iteration of the second pass (lines 61-97); panic: line 92 indexes the
\* nil match of a line that starts with ### Step and is no block header
SecondPassLine(acc, line, stepNum, result, now) ==
    LET isHdr == notesSectionRegex(line)
        num == IF isHdr THEN line.n ELSE acc.notesStepNum
        inNotes == isHdr \/ acc.inNotesSection
        found == acc.found \/ (isHdr /\ line.n = stepNum)
        newLine == IF inNotes /\ num = stepNum
                   THEN IF statusRegex(line) THEN StatusLine(StatusWord(result))
                        ELSE IF lastRunRegex(line) THEN LastRunLine(now)
                        ELSE IF notesRegex(line) THEN NotesLine(NotesText(result))
                        ELSE line
                   ELSE line
        panics == inNotes /\ HasPrefixStepHdr(line) /\ ~isHdr
        leaves == inNotes /\ HasPrefixStepHdr(line) /\ isHdr /\ num # line.n
    IN  IF acc.panic THEN acc
        ELSE [out |-> Append(acc.out, newLine),
              inNotesSection |-> IF leaves THEN FALSE ELSE inNotes,
              notesStepNum |-> num,
              found |-> found,
              panic |-> panics]

RECURSIVE SecondPass(_, _, _, _, _, _)
SecondPass(acc, lines, i, stepNum, result, now) ==
    IF i > Len(lines) THEN acc
    ELSE SecondPass(SecondPassLine(acc, lines[i], stepNum, result, now),
                    lines, i + 1, stepNum, result, now)

\* insertAfter: "" and the block go in before slice[index] (0-based index)
insertAfter(slice, index, block) ==
    IF index >= Len(slice) THEN slice \o <<BlankLine>> \o block
    ELSE SubSeq(slice, 1, index) \o <<BlankLine>> \o block
         \o SubSeq(slice, index + 1, Len(slice))

\* lines 107-108: the last line (1-based) starting with ## Notes or ### Step
RECURSIVE LastNotesLine(_, _)
LastNotesLine(out, i) ==
    IF i < 1 THEN 0
    ELSE IF HasPrefixNotesHdr(out[i]) \/ HasPrefixStepHdr(out[i]) THEN i
    ELSE LastNotesLine(out, i - 1)

\* lines 110-113: skip the non-blank lines that follow (0-based insertIdx)
RECURSIVE SkipNonBlank(_, _)
SkipNonBlank(out, insertIdx) ==
    IF insertIdx < Len(out) /\ ~IsBlank(out[insertIdx + 1])
    THEN SkipNonBlank(out, insertIdx + 1) ELSE insertIdx

Panic == <<Line("panic", 0, "index out of range", "")>>

\* updateStepInContent: the patched document, or Panic
updateStepInContent(content, stepNum, result, now) ==
    LET lines == FirstPass(content, stepNum, result)
        acc == SecondPass([out |-> <<>>, inNotesSection |-> FALSE, notesStepNum |-> 0,
                           found |-> FALSE, panic |-> FALSE],
                          lines, 1, stepNum, result, now)
        block == createNotesSectionForStep(stepNum, result, now)
    IN  IF acc.panic THEN Panic
        ELSE IF ~notesSectionExists(content)
        THEN acc.out \o <<BlankLine, SectionLine("Notes"), BlankLine>> \o block
        ELSE IF ~acc.found
        THEN LET i == LastNotesLine(acc.out, Len(acc.out))
             IN  IF i = 0 THEN acc.out
                 ELSE insertAfter(acc.out, SkipNonBlank(acc.out, i), block)
        ELSE acc.out

(***************************************************************************)
(* The runner's configuration (runner.go, Config and DefaultConfig).       *)
(* Durations are whole ticks (time.Duration counts nanoseconds); the       *)
(* float64 BackoffFactor is the fraction BackoffNum / BackoffDen.          *)
(***************************************************************************)
DefaultTimeout == 1800
DefaultMaxRetries == 3
DefaultRetryDelay == 5
DefaultBackoffFactor == 2

Config(timeout, maxRetries, retryDelay, num, den) ==
    [Timeout |-> timeout, MaxRetries |-> maxRetries, RetryDelay |-> retryDelay,
     BackoffNum |-> num, BackoffDen |-> den]

\* DefaultConfig, with one tick a second
DefaultConfig ==
    Config(DefaultTimeout, DefaultMaxRetries, DefaultRetryDelay, DefaultBackoffFactor, 1)

\* time.Duration(float64(delay) * factor): the product, truncated to a whole tick
ScaleDelay(d, cfg) == (d * cfg.BackoffNum) \div cfg.BackoffDen

RECURSIVE BackoffLoop(_, _, _, _)
BackoffLoop(d, i, n, cfg) ==
    IF i < n - 1 THEN BackoffLoop(ScaleDelay(d, cfg), i + 1, n, cfg) ELSE d

\* mutant: the loop runs one round too many (i < retryCount)
calculateBackoffExtraRound(cfg, n) == BackoffLoop(cfg.RetryDelay, 0, n + 1, cfg)

\* Runner.calculateBackoff
calculateBackoff(cfg, n) == BackoffLoop(cfg.RetryDelay, 0, n, cfg)

\* mutant: > for >=
ExceededMaxRetriesOffByOne(s, cfg) == s.RetryCount > cfg.MaxRetries

\* line 82: the retry budget of the selected step is used up
ExceededMaxRetries(s, cfg) == s.RetryCount >= cfg.MaxRetries

\* line 98: the iteration waits before invoking
NeedsBackoff(s) == s.Status = StatusFailed /\ s.RetryCount > 0

\* mutant: any cancellation of stepCtx is taken for a timeout
IsDeadlineExceededAnyCancel(err) == err # "nil"

\* line 127: stepCtx.Err() == context.DeadlineExceeded
IsDeadlineExceeded(err) == err = "DeadlineExceeded"

SkippedReason(cfg) == "Skipped after " \o ToString(cfg.MaxRetries) \o " failed attempts"
TimeoutReason(cfg) == "Step timed out after " \o ToString(cfg.Timeout) \o "s"
InterruptReason == "Interrupted by user (Ctrl+C)"

\* lines 85-90
SkipResult(s, cfg) == StepResult(FALSE, <<>>, SkippedReason(cfg), StatusSkipped, s.RetryCount)

\* lines 129-133
TimeoutResult(s, cfg) == StepResult(FALSE, <<>>, TimeoutReason(cfg), "", s.RetryCount + 1)

\* saveInterruptedState, lines 188-193
InterruptedResult(s) ==
    StepResult(FALSE, <<OutText("Interrupted by user")>>, InterruptReason, "", s.RetryCount)

\* lines 149-156
EvaluatedResult(s, out) ==
    LET r == ParseResult(out)
    IN  [r EXCEPT !.RetryCount = IF r.Success THEN s.RetryCount ELSE s.RetryCount + 1]

(***************************************************************************)
(* Initial documents: a title and a Plan section of 1..MaxSteps step       *)
(* lines, either bare (no Notes section) or in the template's shape (a     *)
(* Notes section with one block per step).  The steps before the current   *)
(* one are completed or skipped, the current one is pending or failed,     *)
(* with or without a Retries line in its block (retries = 0: without),     *)
(* the later ones pending.                                                 *)
(***************************************************************************)
StepShape(m, retries) == [m |-> m, retries |-> retries]

ShapeBlock(i, shape) ==
    << BlankLine, BlockHeader(i), StatusLine(parseCheckbox(shape.m)),
       LastRunLine(NotAvailable), NotesLine("(none)") >>
    \o (IF shape.retries = 0 THEN <<>> ELSE <<RetriesLine(shape.retries)>>)

RECURSIVE ShapeBlocks(_, _)
ShapeBlocks(shapes, i) ==
    IF i > Len(shapes) THEN <<>>
    ELSE ShapeBlock(i, shapes[i]) \o ShapeBlocks(shapes, i + 1)

Descriptions == <<"build", "test", "ship", "tidy">>

MkDoc(shapes, template) ==
    << TitleLine("demo"), BlankLine, SectionLine("Plan"), BlankLine >>
    \o [i \in 1..Len(shapes) |-> StepLine(shapes[i].m, i, Descriptions[Min(i, 4)])]
    \o (IF template THEN <<BlankLine, SectionLine("Notes")>> \o ShapeBlocks(shapes, 1)
        ELSE <<>>)
    \o <<BlankLine>>

\* the shapes of n steps of which the k-th is the current one (k = n + 1: none)
ShapesOf(n, k, template) ==
    { shapes \in [1..n -> [m : {" ", "x", "!", "-"},
                           retries : {0, 1, DefaultMaxRetries}]] :
        \A i \in 1..n :
            /\ i < k => shapes[i].m \in {"x", "-"} /\ shapes[i].retries = 0
            /\ i = k => shapes[i].m \in {" ", "!"}
            /\ i > k => shapes[i].m = " " /\ shapes[i].retries = 0
            /\ ~template => shapes[i].retries = 0 }

InitialDocs ==
    UNION { { MkDoc(shapes, template) : shapes \in ShapesOf(n, k, template) } :
            <<n, k, template>> \in
                { <<n, k, tp>> \in (1..MaxSteps) \X (1..(MaxSteps + 1)) \X BOOLEAN :
                    k <= n + 1 } }

\* a checkbox bullet without a step label, as free text of the Context section
ContextBullet == StepLine(" ", 0, "decide on a database")

\* the document with a Context section between its title and its Plan section
WithContext(d) ==
    << d[1], BlankLine, ContextHeader, BlankLine, TextLine("background of the project"),
       ContextBullet >> \o Tail(d)

\* documents with a Context section: the template's document with its first
\* step completed and its second step pending, and a plan of one pending
\* step without a Notes section
ContextDocs ==
    { WithContext(MkDoc(<< StepShape("x", 0), StepShape(" ", 0) >>, TRUE)),
      WithContext(MkDoc(<< StepShape(" ", 0) >>, FALSE)) }

\* what the agent process can print
Transcripts ==
    { << OutText("did the work"), OutComplete >>,
      << OutFailed("boom") >>,
      << OutText("thinking") >> }

StepNumbers == 1..MaxSteps

(***************************************************************************)
(* prompt.Build (builder.go): the prompt as its sections.  "Previous       *)
(* Attempt" is written only for a step read as failed with notes.          *)
(***************************************************************************)
NoPrompt == [ProjectName |-> "", Context |-> <<>>, FullPlan |-> <<>>,
             Task |-> [Number |-> 0, Description |-> ""], PreviousAttempt |-> <<>>]

\* lines 30-37: the box shown for a step of the full plan
PromptBox(s) ==
    CASE s.Status = StatusCompleted -> "[x]"
      [] s.Status = StatusFailed -> "[!]"
      [] OTHER -> "[ ]"

Build(p, s) ==
    [ProjectName |-> p.ProjectName,
     Context |-> p.Context,
     FullPlan |-> [i \in 1..Len(p.Steps) |->
                     [box |-> PromptBox(p.Steps[i]), Number |-> p.Steps[i].Number,
                      Description |-> p.Steps[i].Description]],
     Task |-> [Number |-> s.Number, Description |-> s.Description],
     PreviousAttempt |-> IF s.Status = StatusFailed /\ s.Notes # ""
                         THEN <<s.Notes>> ELSE <<>>]

(***************************************************************************)
(* The PromptDetector (promptdetector.go) before NewPromptDetector, and    *)
(* the invocation it observes before it starts.                            *)
(***************************************************************************)
NoDetector == [recentLines |-> <<>>, lastLineAt |-> 0, warned |-> FALSE,
               checkTicker |-> 0, done |-> TRUE, mu |-> "free"]

NoStream == [emitted |-> <<>>, fullOutput |-> <<>>, sinkOk |-> TRUE,
             sinkRet |-> <<0, "nil">>, writeRet |-> <<0, "nil">>, monitored |-> FALSE,
             stepStart |-> 0, lastSeen |-> 0, steps |-> 0, console |-> <<>>,
             result |-> StepResult(FALSE, <<>>, "", "", 0),
             earlier |-> FALSE, written |-> 0]

NoUpdate == [stepNum |-> 0, result |-> StepResult(FALSE, <<>>, "", "", 0),
             how |-> "none", ok |-> FALSE, readStatus |-> "", readCount |-> 0]

(***************************************************************************)
(* The loop (runner.go, Runner.Run and Runner.runLoop).                    *)
(***************************************************************************)
Init ==
    /\ doc \in InitialDocs \cup ContextDocs
    /\ clock = 1
    /\ pc = "top"
    /\ ret = "none"
    /\ ctxDone = FALSE
    /\ stepCtxErr = "nil"
    /\ step = NoStep
    /\ output = <<>>
    /\ runErr = "nil"
    /\ config = DefaultConfig
    /\ delay = 0
    /\ retryCount = 0
    /\ lastUpdate = NoUpdate
    /\ docBefore = <<>>
    /\ invoked = [k \in StepNumbers |-> 0]
    /\ failedInRun = {}
    /\ waited = FALSE
    /\ interruptedAt = "never"
    /\ applied = {}
    /\ promptText = NoPrompt
    /\ pd = NoDetector
    /\ stream = NoStream
    /\ plan = NoPlan

\* plan.UpdateStep from the loop: read the file, patch it with the time read
\* from the clock, write it back; the read or the write can fail, and the patch
\* can panic.  how names the caller, s the step as the iteration parsed it.
UpdateStep(s, result, how, nextPc, nextRet, failRet) ==
    \E now \in clock..MaxTime, ioOk \in BOOLEAN :
        \E updated \in { updateStepInContent(doc, s.Number, result, now) } :
            /\ clock' = now
            /\ lastUpdate' = [stepNum |-> s.Number, result |-> result, how |-> how,
                              ok |-> ioOk /\ updated # Panic,
                              readStatus |-> s.Status, readCount |-> s.RetryCount]
            /\ IF ~ioOk
               THEN doc' = doc /\ pc' = "exit" /\ ret' = failRet
               ELSE IF updated = Panic
               THEN doc' = doc /\ pc' = "exit" /\ ret' = "panic"
               ELSE doc' = updated /\ pc' = nextPc /\ ret' = nextRet

\* the locals of an iteration leave scope when the loop continues
ContinueOrExit ==
    IF pc' = "top"
    THEN /\ step' = NoStep /\ output' = <<>> /\ runErr' = "nil" /\ stepCtxErr' = "nil"
         /\ docBefore' = <<>> /\ waited' = FALSE /\ promptText' = NoPrompt
    ELSE UNCHANGED <<step, output, runErr, stepCtxErr, docBefore, waited, promptText>>

\* lines 116-123: the prompt is built, stepCtx is derived from ctx and
\* agent.Run is called
StartInvocation(s) ==
    /\ pc' = "invoking"
    /\ stepCtxErr' = IF ctxDone THEN "Canceled" ELSE "nil"
    /\ docBefore' = doc
    /\ invoked' = [invoked EXCEPT ![s.Number] = Min(@ + 1, config.MaxRetries + 1)]
    /\ promptText' = Build(Parse(doc), s)

\* lines 61-66: the loop is entered with the context cancelled
ExitCancelled ==
    /\ pc = "top" /\ ctxDone
    /\ pc' = "exit" /\ ret' = "context canceled"
    /\ UNCHANGED <<doc, clock, ctxDone, stepCtxErr, step, output, runErr, config, delay,
                   retryCount, lastUpdate, docBefore, invoked, failedInRun, waited,
                   interruptedAt>>
    /\ UNCHANGED <<applied, plan, promptText, pd, stream>>

\* lines 69-72: the plan file cannot be read
ParseFileFails ==
    /\ pc = "top" /\ ~ctxDone
    /\ pc' = "exit" /\ ret' = "failed to parse plan"
    /\ UNCHANGED <<doc, clock, ctxDone, stepCtxErr, step, output, runErr, config, delay,
                   retryCount, lastUpdate, docBefore, invoked, failedInRun, waited,
                   interruptedAt>>
    /\ UNCHANGED <<applied, plan, promptText, pd, stream>>

\* mutant: a plan without an open step is reported as an error
AllDoneReturnsError ==
    /\ pc = "top" /\ ~ctxDone
    /\ NextStep(Parse(doc)) = NoStep
    /\ pc' = "exit" /\ ret' = "no step to run" /\ step' = NoStep
    /\ UNCHANGED <<doc, clock, ctxDone, stepCtxErr, output, runErr, config, delay,
                   retryCount, lastUpdate, docBefore, invoked, failedInRun, waited,
                   interruptedAt>>
    /\ UNCHANGED <<applied, plan, promptText, pd, stream>>

\* lines 74-79: no pending or failed step
AllDone ==
    /\ pc = "top" /\ ~ctxDone
    /\ NextStep(Parse(doc)) = NoStep
    /\ pc' = "exit" /\ ret' = "nil" /\ step' = NoStep
    /\ UNCHANGED <<doc, clock, ctxDone, stepCtxErr, output, runErr, config, delay,
                   retryCount, lastUpdate, docBefore, invoked, failedInRun, waited,
                   interruptedAt>>
    /\ UNCHANGED <<applied, plan, promptText, pd, stream>>

\* lines 81-95: the retry budget is used up; mark as skipped and continue
SkipStep ==
    /\ pc = "top" /\ ~ctxDone
    /\ LET s == NextStep(Parse(doc))
       IN  /\ s # NoStep
           /\ ExceededMaxRetries(s, config)
           /\ UpdateStep(s, SkipResult(s, config), "skip", "top", "none",
                         "failed to update plan")
    /\ UNCHANGED <<ctxDone, stepCtxErr, step, output, runErr, config, delay,
                   retryCount, docBefore, invoked, failedInRun, waited, interruptedAt>>
    /\ UNCHANGED <<applied, plan, promptText, pd, stream>>

\* lines 97-101: a failed step with retries waits first
BeginBackoff ==
    /\ pc = "top" /\ ~ctxDone
    /\ LET s == NextStep(Parse(doc))
       IN  /\ s # NoStep
           /\ ~ExceededMaxRetries(s, config)
           /\ NeedsBackoff(s)
           /\ step' = s
           /\ retryCount' = s.RetryCount
           /\ delay' = calculateBackoff(config, s.RetryCount)
    /\ pc' = "backoff"
    /\ waited' = FALSE
    /\ UNCHANGED <<doc, clock, ret, ctxDone, stepCtxErr, output, runErr, config, lastUpdate,
                   docBefore, invoked, failedInRun, interruptedAt>>
    /\ UNCHANGED <<applied, plan, promptText, pd, stream>>

\* line 103: the delay elapsed.  The delay is positive, so a loop that
\* finds ctx cancelled in the select of lines 102-107 takes ctx.Done()
BackoffElapsed ==
    /\ pc = "backoff" /\ ~ctxDone
    /\ waited' = TRUE
    /\ StartInvocation(step)
    /\ UNCHANGED <<doc, clock, ret, ctxDone, step, output, runErr, config, delay, retryCount,
                   lastUpdate, failedInRun, interruptedAt>>
    /\ UNCHANGED <<applied, plan, pd, stream>>

\* mutant: the wait does not honour the cancellation
BackoffIgnoresCancel ==
    /\ pc = "backoff" /\ ctxDone
    /\ waited' = TRUE
    /\ StartInvocation(step)
    /\ UNCHANGED <<doc, clock, ret, ctxDone, step, output, runErr, config, delay, retryCount,
                   lastUpdate, failedInRun, interruptedAt>>
    /\ UNCHANGED <<applied, plan, pd, stream>>

\* lines 104-105: cancelled while waiting
BackoffCancelled ==
    /\ pc = "backoff" /\ ctxDone
    /\ pc' = "exit" /\ ret' = "context canceled"
    /\ UNCHANGED <<doc, clock, ctxDone, stepCtxErr, step, output, runErr, config, delay,
                   retryCount, lastUpdate, docBefore, invoked, failedInRun, waited,
                   interruptedAt>>
    /\ UNCHANGED <<applied, plan, promptText, pd, stream>>

\* lines 98, 109-123: no wait; the agent is invoked at once
InvokeNow ==
    /\ pc = "top" /\ ~ctxDone
    /\ LET s == NextStep(Parse(doc))
       IN  /\ s # NoStep
           /\ ~ExceededMaxRetries(s, config)
           /\ ~NeedsBackoff(s)
           /\ step' = s
           /\ StartInvocation(s)
    /\ waited' = FALSE
    /\ UNCHANGED <<doc, clock, ret, ctxDone, output, runErr, config, delay, retryCount,
                   lastUpdate, failedInRun, interruptedAt>>
    /\ UNCHANGED <<applied, plan, pd, stream>>

\* Runner.Run lines 50-54: the signal arrives and the run context is cancelled;
\* a live stepCtx is cancelled with it
Interrupt ==
    /\ pc # "exit" /\ ~ctxDone
    /\ ctxDone' = TRUE
    /\ stepCtxErr' = IF pc \in {"invoking", "returned"} /\ stepCtxErr = "nil"
                     THEN "Canceled" ELSE stepCtxErr
    /\ interruptedAt' = pc
    /\ UNCHANGED <<doc, clock, pc, ret, step, output, runErr, config, delay, retryCount,
                   lastUpdate, docBefore, invoked, failedInRun, waited>>
    /\ UNCHANGED <<applied, plan, promptText, pd, stream>>

\* line 120: the timer of context.WithTimeout fires, until cancel() of line 124
DeadlineExpires ==
    /\ pc \in {"invoking", "returned"} /\ stepCtxErr = "nil"
    /\ stepCtxErr' = "DeadlineExceeded"
    /\ UNCHANGED <<doc, clock, pc, ret, ctxDone, step, output, runErr, config, delay,
                   retryCount, lastUpdate, docBefore, invoked, failedInRun, waited,
                   interruptedAt>>
    /\ UNCHANGED <<applied, plan, promptText, pd, stream>>

\* Agent.Run: the pipes or the process cannot be started
AgentFailsToStart ==
    /\ pc = "invoking"
    /\ pc' = "returned" /\ output' = <<>> /\ runErr' = "launch"
    /\ UNCHANGED <<doc, clock, ret, ctxDone, stepCtxErr, step, config, delay, retryCount,
                   lastUpdate, docBefore, invoked, failedInRun, waited, interruptedAt>>
    /\ UNCHANGED <<applied, plan, promptText, pd, stream>>

\* Agent.Run: the process ends; cmd.Wait reports an error (killed, or a
\* non-zero exit) or none, and the error is returned only when ctx.Err() is set
AgentReturns ==
    /\ pc = "invoking"
    /\ \E out \in Transcripts, waitErr \in BOOLEAN :
          /\ output' = out
          /\ runErr' = IF waitErr /\ stepCtxErr # "nil" THEN "ctx" ELSE "nil"
    /\ pc' = "returned"
    /\ UNCHANGED <<doc, clock, ret, ctxDone, stepCtxErr, step, config, delay, retryCount,
                   lastUpdate, docBefore, invoked, failedInRun, waited, interruptedAt>>
    /\ UNCHANGED <<applied, plan, promptText, pd, stream>>

\* lines 124-138: the step timed out
PersistTimeout ==
    /\ pc = "returned"
    /\ IsDeadlineExceeded(stepCtxErr)
    /\ UpdateStep(step, TimeoutResult(step, config), "timeout", "top", "none",
                  "failed to update plan")
    /\ failedInRun' = failedInRun \cup {step.Number}
    /\ ContinueOrExit
    /\ UNCHANGED <<ctxDone, config, delay, retryCount, invoked, interruptedAt>>
    /\ UNCHANGED <<applied, plan, pd, stream>>

\* lines 140-144 and saveInterruptedState: the run context is cancelled
SaveInterrupted ==
    /\ pc = "returned"
    /\ ~IsDeadlineExceeded(stepCtxErr)
    /\ runErr # "nil" /\ ctxDone
    /\ UpdateStep(step, InterruptedResult(step), "interrupted", "exit", "nil",
                  "failed to save interrupted state")
    /\ UNCHANGED <<ctxDone, stepCtxErr, step, output, runErr, config, delay,
                   retryCount, docBefore, invoked, failedInRun, waited, interruptedAt>>
    /\ UNCHANGED <<applied, plan, promptText, pd, stream>>

\* mutant: the state is saved for every error of the agent, cancelled or not
AgentErrorSavesState ==
    /\ pc = "returned"
    /\ ~IsDeadlineExceeded(stepCtxErr)
    /\ runErr # "nil" /\ ~ctxDone
    /\ UpdateStep(step, InterruptedResult(step), "interrupted", "exit", "nil",
                  "failed to save interrupted state")
    /\ UNCHANGED <<ctxDone, stepCtxErr, step, output, runErr, config, delay,
                   retryCount, docBefore, invoked, failedInRun, waited, interruptedAt>>
    /\ UNCHANGED <<applied, plan, promptText, pd, stream>>

\* line 145: any other error of the agent is returned
AgentErrorFatal ==
    /\ pc = "returned"
    /\ ~IsDeadlineExceeded(stepCtxErr)
    /\ runErr # "nil" /\ ~ctxDone
    /\ pc' = "exit" /\ ret' = "agent execution failed"
    /\ UNCHANGED <<doc, clock, ctxDone, stepCtxErr, step, output, runErr, config, delay,
                   retryCount, lastUpdate, docBefore, invoked, failedInRun, waited,
                   interruptedAt>>
    /\ UNCHANGED <<applied, plan, promptText, pd, stream>>

\* lines 148-161: the transcript is evaluated and the outcome persisted
PersistResult ==
    /\ pc = "returned"
    /\ ~IsDeadlineExceeded(stepCtxErr)
    /\ runErr = "nil"
    /\ LET result == EvaluatedResult(step, output)
       IN  /\ UpdateStep(step, result, "result", "top", "none",
                         "failed to update plan")
           /\ failedInRun' = IF result.Success THEN failedInRun
                             ELSE failedInRun \cup {step.Number}
    /\ ContinueOrExit
    /\ UNCHANGED <<ctxDone, config, delay, retryCount, invoked, interruptedAt>>
    /\ UNCHANGED <<applied, plan, pd, stream>>

Next ==
    \/ ExitCancelled
    \/ ParseFileFails
    \/ AllDone
    \/ SkipStep
    \/ BeginBackoff
    \/ BackoffElapsed
    \/ BackoffCancelled
    \/ InvokeNow
    \/ Interrupt
    \/ DeadlineExpires
    \/ AgentFailsToStart
    \/ AgentReturns
    \/ PersistTimeout
    \/ SaveInterrupted
    \/ AgentErrorFatal
    \/ PersistResult

Spec == Init /\ [][Next]_vars

(***************************************************************************)
(* calculateBackoff on its own: the configuration and the retry count are  *)
(* drawn in the initial state and the function is applied once.            *)
(***************************************************************************)
BackoffFactors == { <<1, 1>>, <<2, 1>>, <<3, 1>>, <<3, 2>>, <<1, 2>> }

BackoffConfigs ==
    { Config(DefaultTimeout, DefaultMaxRetries, d, f[1], f[2]) :
        d \in 1..MaxDelay, f \in BackoffFactors } \cup {DefaultConfig}

InitBackoff ==
    /\ doc = <<>>
    /\ clock = 1
    /\ pc = "calc"
    /\ ret = "none"
    /\ ctxDone = FALSE
    /\ stepCtxErr = "nil"
    /\ step = NoStep
    /\ output = <<>>
    /\ runErr = "nil"
    /\ config \in BackoffConfigs
    /\ delay = 0
    /\ retryCount \in 1..MaxRetryCount
    /\ lastUpdate = NoUpdate
    /\ docBefore = <<>>
    /\ invoked = [k \in StepNumbers |-> 0]
    /\ failedInRun = {}
    /\ waited = FALSE
    /\ interruptedAt = "never"
    /\ applied = {}
    /\ promptText = NoPrompt
    /\ pd = NoDetector
    /\ stream = NoStream
    /\ plan = NoPlan

ComputeBackoff ==
    /\ pc = "calc"
    /\ delay' = calculateBackoff(config, retryCount)
    /\ pc' = "calculated"
    /\ UNCHANGED <<doc, clock, ret, ctxDone, stepCtxErr, step, output, runErr, config,
                   retryCount, lastUpdate, docBefore, invoked, failedInRun, waited,
                   interruptedAt>>
    /\ UNCHANGED <<applied, plan, promptText, pd, stream>>

SpecBackoff == InitBackoff /\ [][ComputeBackoff]_vars

(***************************************************************************)
(* NextStep and IsComplete on their own: a document of 0..MaxPlanLen step  *)
(* lines with any markers is parsed, NextStep is applied to the plan and   *)
(* then IsComplete.                                                        *)
(***************************************************************************)
Markers == {" ", "x", "!", "-"}

PlanDocs ==
    UNION { { << TitleLine("demo"), BlankLine, SectionLine("Plan"), BlankLine >>
              \o [i \in 1..n |-> StepLine(ms[i], i, Descriptions[Min(i, 4)])] :
              ms \in [1..n -> Markers] } : n \in 0..MaxPlanLen }

InitPlan ==
    /\ doc \in PlanDocs
    /\ clock = 1
    /\ pc = "plan"
    /\ ret = "none"
    /\ ctxDone = FALSE
    /\ stepCtxErr = "nil"
    /\ step = NoStep
    /\ output = <<>>
    /\ runErr = "nil"
    /\ config = DefaultConfig
    /\ delay = 0
    /\ retryCount = 0
    /\ lastUpdate = NoUpdate
    /\ docBefore = <<>>
    /\ invoked = [k \in StepNumbers |-> 0]
    /\ failedInRun = {}
    /\ waited = FALSE
    /\ interruptedAt = "never"
    /\ applied = {}
    /\ promptText = NoPrompt
    /\ pd = NoDetector
    /\ stream = NoStream
    /\ plan = NoPlan

\* step := plan.NextStep()
SelectStep ==
    /\ pc = "plan"
    /\ step' = NextStep(Parse(doc))
    /\ pc' = "selected"
    /\ UNCHANGED <<doc, clock, ret, ctxDone, stepCtxErr, output, runErr, config, delay,
                   retryCount, lastUpdate, docBefore, invoked, failedInRun, waited,
                   interruptedAt>>
    /\ UNCHANGED <<applied, plan, promptText, pd, stream>>

\* plan.IsComplete(), kept in ret as "complete" or "incomplete"
CheckComplete ==
    /\ pc = "selected"
    /\ ret' = IF IsComplete(Parse(doc)) THEN "complete" ELSE "incomplete"
    /\ pc' = "checked"
    /\ UNCHANGED <<doc, clock, ctxDone, stepCtxErr, step, output, runErr, config, delay,
                   retryCount, lastUpdate, docBefore, invoked, failedInRun, waited,
                   interruptedAt>>
    /\ UNCHANGED <<applied, plan, promptText, pd, stream>>

NextPlan == SelectStep \/ CheckComplete

SpecPlan == InitPlan /\ [][NextPlan]_vars

(***************************************************************************)
(* ParseResult on its own: a transcript of 0..MaxOutLen lines and the step *)
(* of the iteration are drawn, and the transcript is evaluated as lines    *)
(* 148-156 of runLoop do.                                                  *)
(***************************************************************************)
OutAlphabet ==
    { OutBlank, OutText("working on it"), OutComplete, OutFailed("boom"), OutFailed(""),
      OutEmbComplete("all done:"), OutEmbFailed("result:", "disk full"),
      OutFailedMentions("never reached"), OutEmbBoth("print", "reason"), OutNoColon }

AllTranscripts == UNION { [1..n -> OutAlphabet] : n \in 0..MaxOutLen }

EvaluatedSteps ==
    { [NoStep EXCEPT !.Number = 1, !.Description = "build", !.Status = StatusPending],
      [NoStep EXCEPT !.Number = 1, !.Description = "build", !.Status = StatusFailed,
                     !.RetryCount = 1] }

InitResult ==
    /\ doc = <<>>
    /\ clock = 1
    /\ pc = "returned"
    /\ ret = "none"
    /\ ctxDone = FALSE
    /\ stepCtxErr = "nil"
    /\ step \in EvaluatedSteps
    /\ output \in AllTranscripts
    /\ runErr = "nil"
    /\ config = DefaultConfig
    /\ delay = 0
    /\ retryCount = 0
    /\ lastUpdate = NoUpdate
    /\ docBefore = <<>>
    /\ invoked = [k \in StepNumbers |-> 0]
    /\ failedInRun = {}
    /\ waited = FALSE
    /\ interruptedAt = "never"
    /\ applied = {}
    /\ promptText = NoPrompt
    /\ pd = NoDetector
    /\ stream = NoStream
    /\ plan = NoPlan

\* result := prompt.ParseResult(output), and the retry count of lines 152-156
Evaluate ==
    /\ pc = "returned"
    /\ lastUpdate' = [stepNum |-> step.Number, result |-> EvaluatedResult(step, output),
                      how |-> "evaluated", ok |-> TRUE,
                      readStatus |-> step.Status, readCount |-> step.RetryCount]
    /\ pc' = "evaluated"
    /\ UNCHANGED <<doc, clock, ret, ctxDone, stepCtxErr, step, output, runErr, config,
                   delay, retryCount, docBefore, invoked, failedInRun, waited,
                   interruptedAt>>
    /\ UNCHANGED <<applied, plan, promptText, pd, stream>>

SpecResult == InitResult /\ [][Evaluate]_vars

(***************************************************************************)
(* updateStepInContent on its own: a document, a step number of its plan   *)
(* and a result are drawn, and the result is applied to the document, and  *)
(* then applied once more.  The documents have 1..MaxSteps steps with any  *)
(* markers and vary in: a Context section with a checkbox bullet; a        *)
(* checkbox in the text of step 1; the Notes section (none, the header     *)
(* only, a block for step 1 only, a block for the last step only, a block  *)
(* for step 1 with a blank line between its fields, a block per step, a    *)
(* block per step and a heading ### Steps to reproduce); a section after   *)
(* the Notes section.                                                      *)
(***************************************************************************)
BoxedDescription == "tick [ ] here"

NotesShapes == {"none", "hdr", "first", "last", "gap", "all", "bad"}

\* a block with a blank line between its Last Run and Notes lines
GapBlock(i, shape) ==
    << BlankLine, BlockHeader(i), StatusLine(parseCheckbox(shape.m)),
       LastRunLine(NotAvailable), BlankLine, NotesLine("by hand") >>

WriterShape(m) == StepShape(m, IF m = "!" THEN 1 ELSE 0)

WriterNotes(ms, notes) ==
    CASE notes = "none"  -> <<>>
      [] notes = "hdr"   -> <<BlankLine, SectionLine("Notes")>>
      [] notes = "first" -> <<BlankLine, SectionLine("Notes")>>
                            \o ShapeBlock(1, WriterShape(ms[1]))
      [] notes = "last"  -> <<BlankLine, SectionLine("Notes")>>
                            \o ShapeBlock(Len(ms), WriterShape(ms[Len(ms)]))
      [] notes = "gap"   -> <<BlankLine, SectionLine("Notes")>>
                            \o GapBlock(1, WriterShape(ms[1]))
      [] notes = "all"   -> <<BlankLine, SectionLine("Notes")>>
                            \o ShapeBlocks([i \in 1..Len(ms) |-> WriterShape(ms[i])], 1)
      [] notes = "bad"   -> <<BlankLine, SectionLine("Notes")>>
                            \o ShapeBlocks([i \in 1..Len(ms) |-> WriterShape(ms[i])], 1)
                            \o <<BlankLine, BadBlockHeader("s to reproduce"),
                                 TextLine("run it twice")>>

MkWriterDoc(ms, ctx, boxed, notes, trailing) ==
    << TitleLine("demo"), BlankLine >>
    \o (IF ctx THEN << ContextHeader, BlankLine, TextLine("background of the project"),
                       ContextBullet, BlankLine >>
        ELSE <<>>)
    \o << SectionLine("Plan"), BlankLine >>
    \o [i \in 1..Len(ms) |->
          StepLine(ms[i], i, IF boxed /\ i = 1 THEN BoxedDescription
                             ELSE Descriptions[Min(i, 4)])]
    \o WriterNotes(ms, notes)
    \o (IF trailing THEN << BlankLine, SectionLine("Appendix"), StatusLine("draft"),
                            NotesLine("keep this") >>
        ELSE <<>>)
    \o << BlankLine >>

WriterDocs ==
    { MkWriterDoc(ms, ctx, boxed, notes, trailing) :
        ms \in UNION { [1..n -> Markers] : n \in 1..MaxSteps },
        ctx \in BOOLEAN, boxed \in BOOLEAN, notes \in NotesShapes, trailing \in BOOLEAN }

\* results as the loop builds them: a success, a failure with a reason, a
\* failure with an empty reason (STEP_FAILED: and nothing after it) with and
\* without another line, a success after a line over 100 characters, a skip
WriterResults ==
    { StepResult(TRUE, << OutText("did the work"), OutComplete >>, "", "", 0),
      StepResult(FALSE, << OutFailed("boom") >>, "boom", "", 1),
      StepResult(FALSE, << OutText("gave up"), OutFailed("") >>, "", "", 1),
      StepResult(FALSE, << OutFailed("") >>, "", "", 1),
      StepResult(TRUE, << OutLongText("a very long line"), OutComplete >>, "", "", 0),
      SkipResult(NoStep, DefaultConfig) }

InitWriter ==
    /\ doc \in WriterDocs
    /\ clock = 1
    /\ pc = "fresh"
    /\ ret = "none"
    /\ ctxDone = FALSE
    /\ stepCtxErr = "nil"
    /\ step = NoStep
    /\ output = <<>>
    /\ runErr = "nil"
    /\ config = DefaultConfig
    /\ delay = 0
    /\ retryCount = 0
    /\ \E k \in 1..MaxSteps, r \in WriterResults :
          /\ k <= Len(Parse(doc).Steps)
          /\ lastUpdate = [NoUpdate EXCEPT !.stepNum = k, !.result = r, !.how = "apply"]
    /\ docBefore = <<>>
    /\ invoked = [k \in StepNumbers |-> 0]
    /\ failedInRun = {}
    /\ waited = FALSE
    /\ interruptedAt = "never"
    /\ applied = {}
    /\ promptText = NoPrompt
    /\ pd = NoDetector
    /\ stream = NoStream
    /\ plan = NoPlan

\* updated := updateStepInContent(content, stepNum, result), at a time read
\* from the clock; a panic leaves no document
ApplyTo(nextPc) ==
    \E now \in clock..MaxTime :
        LET updated == updateStepInContent(doc, lastUpdate.stepNum, lastUpdate.result, now)
        IN  /\ clock' = now
            /\ docBefore' = doc
            /\ applied' = applied \cup {lastUpdate.stepNum}
            /\ IF updated = Panic
               THEN doc' = doc /\ pc' = "panicked"
               ELSE doc' = updated /\ pc' = nextPc
            /\ UNCHANGED <<ret, ctxDone, stepCtxErr, step, output, runErr, config, delay,
                           retryCount, lastUpdate, invoked, failedInRun, waited,
                           interruptedAt, plan, promptText, pd, stream>>

ApplyResult == pc = "fresh" /\ ApplyTo("once")

ApplyResultAgain == pc = "once" /\ ApplyTo("twice")

NextWriter == ApplyResult \/ ApplyResultAgain

SpecWriter == InitWriter /\ [][NextWriter]_vars

(***************************************************************************)
(* Parse on its own: a text is drawn and parsed.  The texts have           *)
(* 0..MaxSteps checkbox lines with any labels (omitted, in order, 7), a    *)
(* block for step 1, and vary in their Context section (none; one; one     *)
(* holding a # Project: line; one holding a checkbox bullet; one holding   *)
(* a second ## Context line; a second Context section after the Notes      *)
(* section; one at the end of the text) and in odd lines (none; unknown    *)
(* lines and malformed fields; a line of 64 KiB or more).                  *)
(***************************************************************************)
Labels == {0, 1, 7}

ContextShapes == {"none", "one", "title", "bullet", "twice", "two", "open"}

OddShapes == {"plain", "unknown", "long", "bare", "orphan"}

ParseContext(ctx) ==
    IF ctx \in {"none", "open"} THEN <<>>
    ELSE << ContextHeader, BlankLine, TextLine("background of the project") >>
         \o (CASE ctx = "title"  -> << TitleLine("other") >>
               [] ctx = "bullet" -> << ContextBullet >>
               [] ctx = "twice"  -> << ContextHeader, TextLine("more background") >>
               [] OTHER -> <<>>)
         \o << BlankLine >>

\* the block of step 1: with all its fields; with a timestamp and a retry
\* count that do not parse; its header alone; and followed by a block for a
\* step number the plan does not have
OrphanStep == 9

ParseBlock(odd) ==
    IF odd = "bare" THEN << BlankLine, BlockHeader(1) >>
    ELSE << BlankLine, BlockHeader(1), StatusLine("failed") >>
         \o (IF odd = "unknown"
             THEN << LastRunLine(Malformed), TextLine("**Retries**: many"),
                    TextLine("a remark by hand") >>
             ELSE << LastRunLine(1), RetriesLine(1) >>)
         \o << NotesLine("Failed: boom") >>
         \o (IF odd = "orphan"
             THEN << BlankLine, BlockHeader(OrphanStep), LastRunLine(1), RetriesLine(2),
                    NotesLine("left behind") >>
             ELSE <<>>)

MkParseDoc(labels, ctx, odd) ==
    << TitleLine("demo"), BlankLine >>
    \o ParseContext(ctx)
    \o << SectionLine("Plan"), BlankLine >>
    \o (IF odd = "long" THEN << LongLine >> ELSE <<>>)
    \o [i \in 1..Len(labels) |->
          StepLine(IF i = 1 THEN "!" ELSE " ", labels[i], Descriptions[Min(i, 4)])]
    \o << BlankLine, SectionLine("Notes") >>
    \o ParseBlock(odd)
    \o (CASE ctx = "two"  -> << BlankLine, ContextHeader, TextLine("later thoughts"),
                                SectionLine("End") >>
          [] ctx = "open" -> << BlankLine, ContextHeader, TextLine("background of the project") >>
          [] OTHER -> <<>>)
    \o << BlankLine >>

ParseDocs ==
    { MkParseDoc(labels, ctx, odd) :
        labels \in UNION { [1..n -> Labels] : n \in 0..MaxSteps },
        ctx \in ContextShapes, odd \in OddShapes }

InitParse ==
    /\ doc \in ParseDocs
    /\ clock = 1
    /\ pc = "text"
    /\ ret = "none"
    /\ ctxDone = FALSE
    /\ stepCtxErr = "nil"
    /\ step = NoStep
    /\ output = <<>>
    /\ runErr = "nil"
    /\ config = DefaultConfig
    /\ delay = 0
    /\ retryCount = 0
    /\ lastUpdate = NoUpdate
    /\ docBefore = <<>>
    /\ invoked = [k \in StepNumbers |-> 0]
    /\ failedInRun = {}
    /\ waited = FALSE
    /\ interruptedAt = "never"
    /\ applied = {}
    /\ promptText = NoPrompt
    /\ pd = NoDetector
    /\ stream = NoStream
    /\ plan = NoPlan

\* plan, err := Parse(content)
ParseText ==
    /\ pc = "text"
    /\ IF ScanErr(doc)
       THEN plan' = NoPlan /\ ret' = "error scanning plan"
       ELSE plan' = Parse(doc) /\ ret' = "nil"
    /\ pc' = "parsed"
    /\ UNCHANGED <<doc, clock, ctxDone, stepCtxErr, step, output, runErr, config, delay,
                   retryCount, lastUpdate, docBefore, invoked, failedInRun, waited,
                   interruptedAt, applied, promptText, pd, stream>>

SpecParse == InitParse /\ [][ParseText]_vars

(***************************************************************************)
(* Sequences of updateStepInContent calls: starting from a document of     *)
(* MaxSteps pending steps without any block (with or without a bare        *)
(* ## Notes header, with or without a section after it), results are       *)
(* applied to any steps in any order.                                      *)
(***************************************************************************)
SequenceDocs ==
    { MkWriterDoc([i \in 1..MaxSteps |-> " "], FALSE, FALSE, notes, trailing) :
        notes \in {"none", "hdr"}, trailing \in BOOLEAN }

InitSequence ==
    /\ doc \in SequenceDocs
    /\ clock = 1
    /\ pc = "sequence"
    /\ ret = "none"
    /\ ctxDone = FALSE
    /\ stepCtxErr = "nil"
    /\ step = NoStep
    /\ output = <<>>
    /\ runErr = "nil"
    /\ config = DefaultConfig
    /\ delay = 0
    /\ retryCount = 0
    /\ lastUpdate = NoUpdate
    /\ docBefore = doc
    /\ invoked = [k \in StepNumbers |-> 0]
    /\ failedInRun = {}
    /\ waited = FALSE
    /\ interruptedAt = "never"
    /\ applied = {}
    /\ promptText = NoPrompt
    /\ pd = NoDetector
    /\ stream = NoStream
    /\ plan = NoPlan

\* one more updateStepInContent call, for any step and result
ApplyNext ==
    /\ pc = "sequence"
    /\ \E k \in 1..MaxSteps, r \in WriterResults, now \in clock..MaxTime :
          LET updated == updateStepInContent(doc, k, r, now)
          IN  /\ k <= Len(Parse(doc).Steps)
              /\ clock' = now
              /\ lastUpdate' = [NoUpdate EXCEPT !.stepNum = k, !.result = r, !.how = "apply"]
              /\ applied' = applied \cup {k}
              /\ IF updated = Panic
                 THEN doc' = doc /\ pc' = "panicked"
                 ELSE doc' = updated /\ pc' = pc
    /\ UNCHANGED <<ret, ctxDone, stepCtxErr, step, output, runErr, config, delay,
                   retryCount, docBefore, invoked, failedInRun, waited, interruptedAt,
                   plan, promptText, pd, stream>>

SpecSequence == InitSequence /\ [][ApplyNext]_vars

(***************************************************************************)
(* The output monitor (promptdetector.go) and the invocations it observes. *)
(* The agent's stream reader (agent/claude.go, lines 49-61) takes a line   *)
(* of the process, appends it to the transcript and prints it to the       *)
(* writer it was given: the console itself, or a PromptDetector in front   *)
(* of the console.  runner.go passes os.Stdout; passing the detector, and  *)
(* calling Reset when a step starts, is modelled after the specification.  *)
(* The clock counts units of 10 seconds from 1; 0 is the zero time.Time.   *)
(***************************************************************************)
MaxEmit == 2          \* lines the process prints in one step
MonitorHorizon == 5   \* the clock reads 1..MonitorHorizon

maxRecentLines == 10  \* line 23
maxContextLines == 5  \* line 140
checkInterval == 1    \* line 51: 10 seconds
stallAfter == 3       \* line 187: 30 seconds

\* the steps observed
MonitorSteps == {1, 2}

PromptTexts == {"Continue? [y/n]"}

\* what the process prints
MonitorAlphabet ==
    { OutText("working"), OutText("Continue? [y/n]"), OutBlank, OutComplete }

\* matchesPromptPattern: some promptPatterns expression matches the line
matchesPromptPattern(line) == line.s \in PromptTexts

\* the last n elements of a sequence
LastN(s, n) == IF Len(s) <= n THEN s ELSE SubSeq(s, Len(s) - n + 1, Len(s))

\* getQuestionContext: the last five buffered lines
getQuestionContext(recentLines) ==
    IF Len(recentLines) = 0 THEN <<"(no context available)">>
    ELSE LET ls == LastN(recentLines, maxContextLines)
         IN  [i \in 1..Len(ls) |-> ls[i].s]

\* what showWarning and monitorStalls print
Advisory(kind, recentLines) == [kind |-> kind, context |-> getQuestionContext(recentLines)]

\* NewPromptDetector: the ticker is started with the detector
NewPromptDetector(now) ==
    [recentLines |-> <<>>, lastLineAt |-> 0, warned |-> FALSE,
     checkTicker |-> now + checkInterval, done |-> FALSE, mu |-> "free"]

\* a Reset that clears the buffer and the time but leaves the flag
ResetKeepsWarned(d) == [d EXCEPT !.recentLines = <<>>, !.lastLineAt = 0]

\* Reset
Reset(d) == [d EXCEPT !.warned = FALSE, !.recentLines = <<>>, !.lastLineAt = 0]

\* a loop body without the test of lines 73-75: blank lines are buffered too
ObserveBlankToo(d, line, now) ==
    [d EXCEPT !.recentLines = LastN(Append(@, line), maxRecentLines),
              !.lastLineAt = now,
              !.warned = @ \/ matchesPromptPattern(line)]

\* lines 72-89 for the one line of a Fprintln: the detector afterwards
Observe(d, line, now) ==
    IF line.s = "" THEN d
    ELSE [d EXCEPT !.recentLines = LastN(Append(@, line), maxRecentLines),
                   !.lastLineAt = now,
                   !.warned = @ \/ matchesPromptPattern(line)]

\* lines 86-88 and showWarning: what the line makes the detector print
PromptAdvisory(d, line) ==
    IF line.s # "" /\ matchesPromptPattern(line) /\ ~d.warned
    THEN << Advisory("prompt", LastN(Append(d.recentLines, line), maxRecentLines)) >>
    ELSE <<>>

\* what the underlying writer returns for a line
SinkWrite(ok) == IF ok THEN <<1, "nil">> ELSE <<0, "EPIPE">>

\* Write: the line goes to the underlying writer first, and an error ends
\* the call; the returned pair
WriteReturn(sinkRet) == IF sinkRet[2] # "nil" THEN sinkRet ELSE <<sinkRet[1], "nil">>

Write(d, line, sinkRet, now) ==
    IF sinkRet[2] # "nil" THEN d ELSE Observe(d, line, now)

\* what the Write prints besides the line
WriteAdvisory(d, line, sinkRet) ==
    IF sinkRet[2] # "nil" THEN <<>> ELSE PromptAdvisory(d, line)

\* mutant: a reader that stops collecting once a line could not be printed
CollectWhilePrinted(st, line) ==
    IF st.writeRet[2] # "nil" THEN st.fullOutput ELSE Append(st.fullOutput, line)

\* the stream reader's fullOutput.WriteString(line), before the line is printed
Collect(st, line) == Append(st.fullOutput, line)

\* line 187: the condition of the stall advisory
StallSeen(d, now) == d.lastLineAt # 0 /\ now - d.lastLineAt > stallAfter /\ ~d.warned

\* monitorStalls, one tick: the detector afterwards, and what it prints
monitorStalls(d, now) ==
    [d EXCEPT !.warned = @ \/ StallSeen(d, now), !.checkTicker = now + checkInterval]

StallAdvisory(d, now) ==
    IF StallSeen(d, now) THEN << Advisory("stall", d.recentLines) >> ELSE <<>>

\* the step the invocations are made for
MonitoredStep == [NoStep EXCEPT !.Number = 1, !.Description = "build",
                                !.Status = StatusPending]

loopVars == <<doc, ret, ctxDone, stepCtxErr, step, output, runErr, config, delay,
              retryCount, lastUpdate, docBefore, invoked, failedInRun, waited,
              interruptedAt, applied, plan, promptText>>

InitMonitor ==
    /\ doc = <<>>
    /\ clock = 1
    /\ pc = "idle"
    /\ ret = "none"
    /\ ctxDone = FALSE
    /\ stepCtxErr = "nil"
    /\ step = MonitoredStep
    /\ output = <<>>
    /\ runErr = "nil"
    /\ config = DefaultConfig
    /\ delay = 0
    /\ retryCount = 0
    /\ lastUpdate = NoUpdate
    /\ docBefore = <<>>
    /\ invoked = [k \in StepNumbers |-> 0]
    /\ failedInRun = {}
    /\ waited = FALSE
    /\ interruptedAt = "never"
    /\ applied = {}
    /\ plan = NoPlan
    /\ promptText = NoPrompt
    /\ \E monitored \in BOOLEAN :
          /\ stream = [NoStream EXCEPT !.monitored = monitored]
          /\ pd = IF monitored THEN NewPromptDetector(clock) ELSE NoDetector

\* a step starts: the detector is reset and agent.Run is called
BeginStep ==
    /\ pc \in {"idle", "evaluated"}
    /\ stream.steps + 1 \in MonitorSteps
    /\ pc' = "streaming"
    /\ pd' = IF stream.monitored THEN Reset(pd) ELSE pd
    /\ stream' = [stream EXCEPT !.emitted = <<>>, !.fullOutput = <<>>,
                                !.stepStart = clock, !.lastSeen = 0,
                                !.steps = @ + 1, !.console = <<>>,
                                !.result = NoStream.result,
                                !.earlier = @ \/ stream.console # <<>>]
    /\ UNCHANGED clock
    /\ UNCHANGED loopVars

\* the console stops taking output
SinkBreaks ==
    /\ pc = "streaming" /\ stream.sinkOk
    /\ stream' = [stream EXCEPT !.sinkOk = FALSE]
    /\ UNCHANGED <<clock, pc, pd>>
    /\ UNCHANGED loopVars

\* the stream reader takes a line of the process: it is appended to the
\* transcript and printed with Fprintln, whose result is not read
StreamLine ==
    /\ pc = "streaming"
    /\ Len(stream.emitted) < MaxEmit
    /\ \E line \in MonitorAlphabet :
          LET sinkRet == SinkWrite(stream.sinkOk)
          IN  /\ stream' = [stream EXCEPT
                              !.emitted = Append(@, line),
                              !.fullOutput = Collect(stream, line),
                              !.sinkRet = sinkRet,
                              !.writeRet = IF stream.monitored THEN WriteReturn(sinkRet)
                                           ELSE sinkRet,
                              !.lastSeen = IF stream.monitored /\ sinkRet[2] = "nil"
                                           THEN clock ELSE @,
                              !.console = IF stream.monitored
                                          THEN @ \o WriteAdvisory(pd, line, sinkRet)
                                          ELSE @]
              /\ pd' = IF stream.monitored THEN Write(pd, line, sinkRet, clock) ELSE pd
    /\ UNCHANGED <<clock, pc>>
    /\ UNCHANGED loopVars

\* the ticker fires and monitorStalls takes the tick
Tick ==
    /\ ~pd.done
    /\ clock = pd.checkTicker
    /\ pd' = monitorStalls(pd, clock)
    /\ stream' = [stream EXCEPT !.console = @ \o StallAdvisory(pd, clock)]
    /\ UNCHANGED <<clock, pc>>
    /\ UNCHANGED loopVars

\* time passes while the agent runs; a tick that is due is taken first
Advance ==
    /\ pc = "streaming"
    /\ clock < MonitorHorizon
    /\ pd.done \/ clock < pd.checkTicker
    /\ clock' = clock + 1
    /\ UNCHANGED <<pc, pd, stream>>
    /\ UNCHANGED loopVars

\* the process ends, agent.Run returns the transcript without an error and
\* the loop evaluates it (runner.go, lines 148-156)
FinishStep ==
    /\ pc = "streaming"
    /\ pc' = "evaluated"
    /\ stream' = [stream EXCEPT !.result = EvaluatedResult(step, stream.fullOutput)]
    /\ UNCHANGED <<clock, pd>>
    /\ UNCHANGED loopVars

\* Close
CloseDetector ==
    /\ pc = "evaluated" /\ ~pd.done
    /\ pc' = "closed"
    /\ pd' = [pd EXCEPT !.done = TRUE]
    /\ UNCHANGED <<clock, stream>>
    /\ UNCHANGED loopVars

NextMonitor ==
    \/ BeginStep
    \/ SinkBreaks
    \/ StreamLine
    \/ Tick
    \/ Advance
    \/ FinishStep
    \/ CloseDetector

SpecMonitor == InitMonitor /\ [][NextMonitor]_vars

(***************************************************************************)
(* The line buffer of the detector (promptdetector.go, lines 57-92 and     *)
(* 221-228) under Write calls that carry one or several whole lines, as    *)
(* the Fprintln and Fprintf calls of the agents make them, and Reset       *)
(* calls.  stream.emitted holds the lines of the Write calls that          *)
(* succeeded since the last Reset; the lines are numbered as they arrive.  *)
(***************************************************************************)
MaxWritten == 13      \* lines handed to Write in a behaviour

\* the texts of a Write call: TRUE is a line with text, FALSE a blank one
ChunkShapes ==
    { << TRUE >>, << TRUE, FALSE, TRUE >>,
      << TRUE, TRUE, TRUE, TRUE, TRUE, TRUE >> }

\* the lines of a Write call whose first line is the k-th line written
ChunkLines(shape, k) ==
    [i \in 1..Len(shape) |->
        IF shape[i] THEN OutText("line " \o ToString(k + i)) ELSE OutBlank]

\* lines 71-89: the loop over the lines of p, from line i on
RECURSIVE ObserveFrom(_, _, _, _)
ObserveFrom(d, lines, i, now) ==
    IF i > Len(lines) THEN d
    ELSE ObserveFrom(Observe(d, lines[i], now), lines, i + 1, now)

\* Write for a p of several lines
WriteText(d, lines, sinkRet, now) ==
    IF sinkRet[2] # "nil" THEN d ELSE ObserveFrom(d, lines, 1, now)

InitBuffer ==
    /\ doc = <<>>
    /\ clock = 1
    /\ pc = "buffering"
    /\ ret = "none"
    /\ ctxDone = FALSE
    /\ stepCtxErr = "nil"
    /\ step = MonitoredStep
    /\ output = <<>>
    /\ runErr = "nil"
    /\ config = DefaultConfig
    /\ delay = 0
    /\ retryCount = 0
    /\ lastUpdate = NoUpdate
    /\ docBefore = <<>>
    /\ invoked = [k \in StepNumbers |-> 0]
    /\ failedInRun = {}
    /\ waited = FALSE
    /\ interruptedAt = "never"
    /\ applied = {}
    /\ plan = NoPlan
    /\ promptText = NoPrompt
    /\ stream = [NoStream EXCEPT !.monitored = TRUE]
    /\ pd = NewPromptDetector(clock)

\* Write(p)
WriteChunk ==
    /\ pc = "buffering"
    /\ \E shape \in ChunkShapes :
          LET lines == ChunkLines(shape, stream.written)
              sinkRet == SinkWrite(stream.sinkOk)
          IN  /\ stream.written + Len(shape) <= MaxWritten
              /\ pd' = WriteText(pd, lines, sinkRet, clock)
              /\ stream' = [stream EXCEPT
                              !.written = @ + Len(shape),
                              !.sinkRet = sinkRet,
                              !.writeRet = WriteReturn(sinkRet),
                              !.emitted = IF sinkRet[2] = "nil" THEN @ \o lines ELSE @]
    /\ UNCHANGED <<clock, pc>>
    /\ UNCHANGED loopVars

\* the underlying writer fails from the next Write call on
SinkFails ==
    /\ pc = "buffering"
    /\ stream.sinkOk
    /\ stream' = [stream EXCEPT !.sinkOk = FALSE]
    /\ UNCHANGED <<clock, pc, pd>>
    /\ UNCHANGED loopVars

\* Reset()
ResetBuffer ==
    /\ pc = "buffering"
    /\ stream.emitted # <<>> /\ ~stream.earlier
    /\ pd' = Reset(pd)
    /\ stream' = [stream EXCEPT !.emitted = <<>>, !.earlier = TRUE]
    /\ UNCHANGED <<clock, pc>>
    /\ UNCHANGED loopVars

NextBuffer ==
    \/ WriteChunk
    \/ SinkFails
    \/ ResetBuffer

SpecBuffer == InitBuffer /\ [][NextBuffer]_vars

(***************************************************************************)
(* The detector under the two stream readers of an agent, which call       *)
(* Write concurrently, the goroutine of monitorStalls and a Reset, with    *)
(* pd.mu and the statements under it as separate steps                     *)
(* (promptdetector.go, lines 57-92, 104-110, 179-213, 221-228).            *)
(* stream.console holds the advisories printed since the last Reset.       *)
(***************************************************************************)
MaxWrites == 1        \* Write calls of one reader
MaxResets == 1        \* Reset calls

Readers == {"stdout", "stderr"}

ReaderAlphabet == { OutText("working"), OutText("Continue? [y/n]") }

\* a mutex that never makes a caller wait
MuIgnored(d) == TRUE

\* pd.mu.Lock() returns only while no goroutine holds the mutex
MuFree(d) == d.mu = "free"

Lock(d, who) == [d EXCEPT !.mu = who]

Unlock(d) == [d EXCEPT !.mu = "free"]

\* lines 77-82: the line is buffered and the time taken
BufferLine(d, line, now) ==
    [d EXCEPT !.recentLines = LastN(Append(@, line), maxRecentLines),
              !.lastLineAt = now]

\* a reader takes the position and the line of its call
AtReader(st, r, to, line) ==
    [st EXCEPT !.readers[r].pc = to, !.readers[r].line = line]

InitConcurrent ==
    /\ doc = <<>>
    /\ clock = 1
    /\ pc = "observing"
    /\ ret = "none"
    /\ ctxDone = FALSE
    /\ stepCtxErr = "nil"
    /\ step = MonitoredStep
    /\ output = <<>>
    /\ runErr = "nil"
    /\ config = DefaultConfig
    /\ delay = 0
    /\ retryCount = 0
    /\ lastUpdate = NoUpdate
    /\ docBefore = <<>>
    /\ invoked = [k \in StepNumbers |-> 0]
    /\ failedInRun = {}
    /\ waited = FALSE
    /\ interruptedAt = "never"
    /\ applied = {}
    /\ plan = NoPlan
    /\ promptText = NoPrompt
    /\ stream = [readers |-> [r \in Readers |->
                                [pc |-> "idle", line |-> OutBlank, left |-> MaxWrites]],
                 ticker |-> "wait", console |-> <<>>, resets |-> 0]
    /\ pd = NewPromptDetector(clock)

\* lines 59-66: Fprintln hands a line to Write and the console takes it
WriteCall(r) ==
    /\ stream.readers[r].pc = "idle"
    /\ stream.readers[r].left > 0
    /\ \E line \in ReaderAlphabet :
          stream' = [AtReader(stream, r, "lock", line) EXCEPT !.readers[r].left = @ - 1]
    /\ UNCHANGED <<clock, pc, pd>>
    /\ UNCHANGED loopVars

\* line 68
WriteLock(r) ==
    /\ stream.readers[r].pc = "lock"
    /\ MuFree(pd)
    /\ pd' = Lock(pd, r)
    /\ stream' = AtReader(stream, r, "loop", stream.readers[r].line)
    /\ UNCHANGED <<clock, pc>>
    /\ UNCHANGED loopVars

\* lines 71-86
WriteLoop(r) ==
    /\ stream.readers[r].pc = "loop"
    /\ LET line == stream.readers[r].line
       IN  /\ pd' = BufferLine(pd, line, clock)
           /\ stream' = AtReader(stream, r,
                                 IF matchesPromptPattern(line) THEN "showWarning"
                                 ELSE "unlock", line)
    /\ UNCHANGED <<clock, pc>>
    /\ UNCHANGED loopVars

\* lines 106-108
ShowWarningTest(r) ==
    /\ stream.readers[r].pc = "showWarning"
    /\ stream' = AtReader(stream, r, IF pd.warned THEN "unlock" ELSE "print",
                          stream.readers[r].line)
    /\ UNCHANGED <<clock, pc, pd>>
    /\ UNCHANGED loopVars

\* lines 109-129
ShowWarningPrint(r) ==
    /\ stream.readers[r].pc = "print"
    /\ pd' = [pd EXCEPT !.warned = TRUE]
    /\ stream' = [AtReader(stream, r, "unlock", stream.readers[r].line)
                      EXCEPT !.console = Append(@, Advisory("prompt", pd.recentLines))]
    /\ UNCHANGED <<clock, pc>>
    /\ UNCHANGED loopVars

\* line 69, deferred
WriteUnlock(r) ==
    /\ stream.readers[r].pc = "unlock"
    /\ pd' = Unlock(pd)
    /\ stream' = AtReader(stream, r, "idle", stream.readers[r].line)
    /\ UNCHANGED <<clock, pc>>
    /\ UNCHANGED loopVars

\* line 185: monitorStalls receives a tick
TickTake ==
    /\ stream.ticker = "wait"
    /\ ~pd.done
    /\ clock = pd.checkTicker
    /\ pd' = [pd EXCEPT !.checkTicker = clock + checkInterval]
    /\ stream' = [stream EXCEPT !.ticker = "lock"]
    /\ UNCHANGED <<clock, pc>>
    /\ UNCHANGED loopVars

\* line 186
TickLock ==
    /\ stream.ticker = "lock"
    /\ MuFree(pd)
    /\ pd' = Lock(pd, "ticker")
    /\ stream' = [stream EXCEPT !.ticker = "test"]
    /\ UNCHANGED <<clock, pc>>
    /\ UNCHANGED loopVars

\* line 187
TickTest ==
    /\ stream.ticker = "test"
    /\ stream' = [stream EXCEPT !.ticker = IF StallSeen(pd, clock) THEN "print"
                                           ELSE "unlock"]
    /\ UNCHANGED <<clock, pc, pd>>
    /\ UNCHANGED loopVars

\* lines 189-208
TickPrint ==
    /\ stream.ticker = "print"
    /\ pd' = [pd EXCEPT !.warned = TRUE]
    /\ stream' = [stream EXCEPT !.ticker = "unlock",
                                !.console = Append(@, Advisory("stall", pd.recentLines))]
    /\ UNCHANGED <<clock, pc>>
    /\ UNCHANGED loopVars

\* line 210
TickUnlock ==
    /\ stream.ticker = "unlock"
    /\ pd' = Unlock(pd)
    /\ stream' = [stream EXCEPT !.ticker = "wait"]
    /\ UNCHANGED <<clock, pc>>
    /\ UNCHANGED loopVars

\* Reset, whose three assignments are made under the mutex
ResetCall ==
    /\ stream.resets < MaxResets
    /\ MuFree(pd)
    /\ pd' = Reset(pd)
    /\ stream' = [stream EXCEPT !.resets = @ + 1, !.console = <<>>]
    /\ UNCHANGED <<clock, pc>>
    /\ UNCHANGED loopVars

\* time passes; a goroutine of monitorStalls that waits takes a due tick first
AdvanceClock ==
    /\ clock < MonitorHorizon
    /\ stream.ticker # "wait" \/ clock < pd.checkTicker
    /\ clock' = clock + 1
    /\ UNCHANGED <<pc, pd, stream>>
    /\ UNCHANGED loopVars

NextConcurrent ==
    \/ \E r \in Readers :
          \/ WriteCall(r)
          \/ WriteLock(r)
          \/ WriteLoop(r)
          \/ ShowWarningTest(r)
          \/ ShowWarningPrint(r)
          \/ WriteUnlock(r)
    \/ TickTake
    \/ TickLock
    \/ TickTest
    \/ TickPrint
    \/ TickUnlock
    \/ ResetCall
    \/ AdvanceClock

SpecConcurrent == InitConcurrent /\ [][NextConcurrent]_vars

(***************************************************************************)
(* Run of an agent: the process writes lines to its stdout and stderr, a   *)
(* goroutine per stream scans the lines and appends each of them and a     *)
(* newline to fullOutput, and Run waits and returns fullOutput.String().   *)
(* Two implementations are in the repository: the one of                   *)
(* unnamed/part_003 and unnamed/part_002 (lines 69-133) appends under a    *)
(* mutex and waits for the readers before cmd.Wait; the one of             *)
(* internal/agent/agent.go (lines 115-157), internal/agent/claude.go       *)
(* (lines 49-87) and internal/agent/opencode.go has neither the mutex nor  *)
(* the WaitGroup.  fullOutput is a sequence of the strings written to it.  *)
(***************************************************************************)
AgentImpls == {"locked", "unlocked"}

\* the k-th line the process writes
ProcessLine(k) == "out " \o ToString(k)

OtherReader(r) == CHOOSE o \in Readers : o # r

\* a reader between the WriteString of a line and the one of its newline,
\* or about to make the first
Appending(st, r) == st.readers[r].pc \in {"line", "newline"}

\* strings.Builder.WriteString: without synchronisation a call that races
\* with one of the other reader can also store over the other's bytes
WriteString(st, r, str) ==
    { Append(st.fullOutput, str) }
        \cup IF st.impl = "unlocked" /\ Appending(st, OtherReader(r))
                 /\ st.fullOutput # <<>>
              THEN { Append(SubSeq(st.fullOutput, 1, Len(st.fullOutput) - 1), str) }
              ELSE {}

InitAgent ==
    /\ doc = <<>>
    /\ clock = 1
    /\ ret = "none"
    /\ ctxDone = FALSE
    /\ stepCtxErr = "nil"
    /\ step = MonitoredStep
    /\ output = <<>>
    /\ runErr = "nil"
    /\ config = DefaultConfig
    /\ delay = 0
    /\ retryCount = 0
    /\ lastUpdate = NoUpdate
    /\ docBefore = <<>>
    /\ invoked = [k \in StepNumbers |-> 0]
    /\ failedInRun = {}
    /\ waited = FALSE
    /\ interruptedAt = "never"
    /\ applied = {}
    /\ plan = NoPlan
    /\ promptText = NoPrompt
    /\ pd = NoDetector
    /\ \E impl \in AgentImpls :
          /\ pc = IF impl = "locked" THEN "wgWait" ELSE "cmdWait"
          /\ stream = [impl |-> impl,
                       pipe |-> [r \in Readers |-> <<>>],
                       wrote |-> {}, exited |-> FALSE, closed |-> FALSE,
                       readers |-> [r \in Readers |-> [pc |-> "scan", line |-> ""]],
                       mu |-> "free", fullOutput |-> <<>>, transcript |-> <<>>]

\* the process writes a line to one of its streams
ProcessWrites(r) ==
    /\ ~stream.exited
    /\ Cardinality(stream.wrote) < MaxEmit
    /\ LET line == ProcessLine(Cardinality(stream.wrote) + 1)
       IN  stream' = [stream EXCEPT !.pipe[r] = Append(@, line),
                                    !.wrote = @ \cup {line}]
    /\ UNCHANGED <<clock, pc, pd>>
    /\ UNCHANGED loopVars

\* the process exits, which ends both streams behind what it wrote
ProcessExits ==
    /\ ~stream.exited
    /\ stream' = [stream EXCEPT !.exited = TRUE]
    /\ UNCHANGED <<clock, pc, pd>>
    /\ UNCHANGED loopVars

\* scanner.Scan() and scanner.Text(): the next line of the stream
ScanNext(r) ==
    /\ stream.readers[r].pc = "scan"
    /\ ~stream.closed
    /\ stream.pipe[r] # <<>>
    /\ stream' = [stream EXCEPT
                    !.pipe[r] = Tail(@),
                    !.readers[r] = [pc |-> IF stream.impl = "locked" THEN "lock"
                                           ELSE "line",
                                    line |-> Head(stream.pipe[r])]]
    /\ UNCHANGED <<clock, pc, pd>>
    /\ UNCHANGED loopVars

\* scanner.Scan() returns false: the stream has ended, or cmd.Wait has
\* closed the pipe under the reader and what was left in it is not read
ScanEnds(r) ==
    /\ stream.readers[r].pc = "scan"
    /\ stream.closed \/ (stream.exited /\ stream.pipe[r] = <<>>)
    /\ stream' = [stream EXCEPT !.readers[r].pc = "eof"]
    /\ UNCHANGED <<clock, pc, pd>>
    /\ UNCHANGED loopVars

\* mu.Lock()
AppendLock(r) ==
    /\ stream.readers[r].pc = "lock"
    /\ stream.mu = "free"
    /\ stream' = [stream EXCEPT !.mu = r, !.readers[r].pc = "line"]
    /\ UNCHANGED <<clock, pc, pd>>
    /\ UNCHANGED loopVars

\* fullOutput.WriteString(line)
AppendLine(r) ==
    /\ stream.readers[r].pc = "line"
    /\ \E out \in WriteString(stream, r, stream.readers[r].line) :
          stream' = [stream EXCEPT !.fullOutput = out, !.readers[r].pc = "newline"]
    /\ UNCHANGED <<clock, pc, pd>>
    /\ UNCHANGED loopVars

\* fullOutput.WriteString("\n")
AppendNewline(r) ==
    /\ stream.readers[r].pc = "newline"
    /\ \E out \in WriteString(stream, r, "\n") :
          stream' = [stream EXCEPT
                        !.fullOutput = out,
                        !.readers[r].pc = IF stream.impl = "locked" THEN "unlock"
                                          ELSE "print"]
    /\ UNCHANGED <<clock, pc, pd>>
    /\ UNCHANGED loopVars

\* mu.Unlock()
AppendUnlock(r) ==
    /\ stream.readers[r].pc = "unlock"
    /\ stream' = [stream EXCEPT !.mu = "free", !.readers[r].pc = "print"]
    /\ UNCHANGED <<clock, pc, pd>>
    /\ UNCHANGED loopVars

\* fmt.Fprintln(output, line)
PrintLine(r) ==
    /\ stream.readers[r].pc = "print"
    /\ stream' = [stream EXCEPT !.readers[r].pc = "scan"]
    /\ UNCHANGED <<clock, pc, pd>>
    /\ UNCHANGED loopVars

\* wg.Wait() returns
ReadersDone ==
    /\ pc = "wgWait"
    /\ \A r \in Readers : stream.readers[r].pc = "eof"
    /\ pc' = "cmdWait"
    /\ UNCHANGED <<clock, pd, stream>>
    /\ UNCHANGED loopVars

\* cmd.Wait() returns when the process has exited, and closes the pipes;
\* Run returns fullOutput.String()
WaitReturns ==
    /\ pc = "cmdWait"
    /\ stream.exited
    /\ pc' = "runReturned"
    /\ stream' = [stream EXCEPT !.closed = TRUE, !.transcript = stream.fullOutput]
    /\ UNCHANGED <<clock, pd>>
    /\ UNCHANGED loopVars

NextAgent ==
    \/ \E r \in Readers :
          \/ ProcessWrites(r)
          \/ ScanNext(r)
          \/ ScanEnds(r)
          \/ AppendLock(r)
          \/ AppendLine(r)
          \/ AppendNewline(r)
          \/ AppendUnlock(r)
          \/ PrintLine(r)
    \/ ProcessExits
    \/ ReadersDone
    \/ WaitReturns

SpecAgent == InitAgent /\ [][NextAgent]_vars

(***************************************************************************)
(* Properties.                                                             *)
(***************************************************************************)
\* the step the last UpdateStep call was made for, as the document now reads
UpdatedStep == Parse(doc).Steps[lastUpdate.stepNum]

IOFailures == {"failed to parse plan", "failed to update plan",
               "failed to save interrupted state", "panic"}

\* C1: after the loop has selected a step whose retryCount is >= maxRetries
\* and persisted it, the re-parsed document gives that step the status Skipped.
C1_SkipPersistsSkipped ==
    (lastUpdate.how = "skip" /\ lastUpdate.ok)
        => UpdatedStep.Status = StatusSkipped

\* C2: with no operator interrupt and no document I/O error, no step is
\* invoked more than maxRetries times, and when the loop has ended without an
\* error no Pending or Failed step is left in the document.
C2_BoundedAttemptsThenDone ==
    (~ctxDone /\ ret \notin IOFailures)
        => /\ \A k \in StepNumbers : invoked[k] <= config.MaxRetries
           /\ (pc = "exit" /\ ret = "nil") => NextStep(Parse(doc)) = NoStep

\* C3: after an invocation that ended in failure (failure sentinel, no
\* sentinel, or timeout) was persisted, the re-parsed step is Failed and its
\* retry count is one more than the count read at the start of the iteration;
\* after a success the re-parsed retry count is the count read.
C3_FailureCountsOneRetry ==
    (lastUpdate.how \in {"result", "timeout"} /\ lastUpdate.ok)
        => IF lastUpdate.result.Success
           THEN UpdatedStep.RetryCount = lastUpdate.readCount
           ELSE /\ UpdatedStep.Status = StatusFailed
                /\ UpdatedStep.RetryCount = lastUpdate.readCount + 1

\* C4: while the agent is invoked, and after it returned, the step of the
\* iteration has a retry count, as parsed at its start, below maxRetries.
C4_NoInvocationBeyondBudget ==
    pc \in {"invoking", "returned"} => step.RetryCount < config.MaxRetries

\* C4 witness: a step with retryCount >= maxRetries was selected and persisted
\* as skipped, and the agent was never invoked for it.
C4_Witness ==
    /\ lastUpdate.how = "skip"
    /\ lastUpdate.readCount >= config.MaxRetries
    /\ invoked[lastUpdate.stepNum] = 0
    /\ pc = "top"

\* C5: an invocation for a step that failed an attempt earlier in this run
\* was preceded by a backoff wait in its iteration, and an invocation that
\* started without a wait is for a step that is Pending or has retryCount 0.
C5_RetryWaitsFirst ==
    pc = "invoking"
        => /\ step.Number \in failedInRun => waited
           /\ ~waited => (step.Status = StatusPending \/ step.RetryCount = 0)

RECURSIVE Pow(_, _)
Pow(b, e) == IF e = 0 THEN 1 ELSE b * Pow(b, e - 1)

\* retryDelay * backoffFactor^(retryCount-1), cut to a whole tick
ClosedFormDelay(cfg, n) ==
    (cfg.RetryDelay * Pow(cfg.BackoffNum, n - 1)) \div Pow(cfg.BackoffDen, n - 1)

C7_InterruptInFlightStopsCleanly ==
    (interruptedAt = "invoking" /\ pc = "exit" /\ ret \notin IOFailures)
        => /\ ret = "nil"
           /\ lastUpdate.how = "interrupted"
           /\ lastUpdate.result.Reason = InterruptReason
           /\ lastUpdate.result.RetryCount = lastUpdate.readCount
           /\ UpdatedStep.Status = StatusFailed

C9_TimeoutPersistedAndLoopContinues ==
    [][ (pc = "returned" /\ stepCtxErr = "DeadlineExceeded" /\ pc' # "returned")
          => /\ lastUpdate'.how = "timeout"
             /\ lastUpdate'.ok
                  => /\ pc' = "top" /\ ret' = "none"
                     /\ Parse(doc').Steps[step.Number].Status = StatusFailed
                     /\ Parse(doc').Steps[step.Number].Notes
                            = "Failed: " \o TimeoutReason(config)
      ]_vars

\* C9 witness: a timeout was persisted and the loop is at its next iteration.
C9_Witness ==
    /\ pc = "top" /\ ret = "none"
    /\ lastUpdate.how = "timeout" /\ lastUpdate.ok
    /\ UpdatedStep.Notes = "Failed: " \o TimeoutReason(config)

\* C10: when the agent returned an error and neither the deadline nor the
\* operator interrupt has fired, the loop stops and returns that error, and
\* the document is as it was before the invocation.
C10_AgentErrorIsFatalAndLeavesPlan ==
    [][ (pc = "returned" /\ runErr # "nil" /\ stepCtxErr = "nil" /\ ~ctxDone
            /\ pc' # "returned")
          => /\ pc' = "exit"
             /\ ret' = "agent execution failed"
             /\ doc' = docBefore
      ]_vars

\* C10 witness: the loop returned the agent's error.
C10_Witness ==
    pc = "exit" /\ ret = "agent execution failed" /\ ~ctxDone /\ doc = docBefore

\* C11: when the plan parsed at the top of an iteration has no Pending or
\* Failed step, the iteration ends the loop with no error, without invoking
\* the agent and without writing the document.
C11_NoOpenStepEndsLoop ==
    [][ (pc = "top" /\ ~ctxDone /\ NextStep(Parse(doc)) = NoStep
            /\ pc' # "top" /\ ret' # "failed to parse plan")
          => /\ pc' = "exit" /\ ret' = "nil"
             /\ doc' = doc
             /\ invoked' = invoked
             /\ lastUpdate' = lastUpdate
      ]_vars

\* C11 witness: the loop ended with no error after the agent completed the
\* last open step.
C11_Witness ==
    /\ pc = "exit" /\ ret = "nil"
    /\ lastUpdate.how = "result" /\ lastUpdate.result.Success
    /\ NextStep(Parse(doc)) = NoStep

\* C12: a step that is Completed or Skipped in the document keeps its
\* checkbox in every step of the loop, and no invocation is started for it.
C12_DoneStepsLeftAlone ==
    [][ \A k \in 1..Len(Parse(doc).Steps) :
          Parse(doc).Steps[k].Status \in {StatusCompleted, StatusSkipped}
            => /\ Len(Parse(doc').Steps) >= k
               /\ Parse(doc').Steps[k].Status = Parse(doc).Steps[k].Status
               /\ (pc # "invoking" /\ pc' = "invoking") => step'.Number # k
      ]_vars

\* the statuses of the steps of a document, in document order
StatusesOf(d) == [i \in 1..Len(Parse(d).Steps) |-> Parse(d).Steps[i].Status]

\* the positions of the Pending and Failed steps of a document
OpenSteps(d) == { i \in 1..Len(StatusesOf(d)) : StatusesOf(d)[i] \in {StatusPending, StatusFailed} }

\* C13: NextStep returns the step at the least position whose status is
\* Pending or Failed, and nil when there is none; for the statuses
\* [Completed, Failed, Pending] it returns the Failed step.
C13_NextStepFirstOpen ==
    pc \in {"selected", "checked"}
        => /\ OpenSteps(doc) = {} => step = NoStep
           /\ OpenSteps(doc) # {}
                => /\ step.Number \in OpenSteps(doc)
                   /\ \A j \in OpenSteps(doc) : step.Number <= j
                   /\ step = Parse(doc).Steps[step.Number]
           /\ StatusesOf(doc) = <<StatusCompleted, StatusFailed, StatusPending>>
                => step.Number = 2 /\ step.Status = StatusFailed

\* C13 witness: NextStep was applied to [Completed, Failed, Pending] and
\* returned the second step.
C13_Witness ==
    /\ pc = "selected"
    /\ StatusesOf(doc) = <<StatusCompleted, StatusFailed, StatusPending>>
    /\ step.Number = 2

\* C14: IsComplete is true exactly when the plan has at least one step and
\* every step is Completed or Skipped: false for [], true for
\* [Completed, Skipped], false for [Completed, Pending].
C14_IsCompleteExactly ==
    pc = "checked"
        => /\ (ret = "complete")
                <=> (/\ Len(StatusesOf(doc)) >= 1
                     /\ \A i \in 1..Len(StatusesOf(doc)) :
                            StatusesOf(doc)[i] \in {StatusCompleted, StatusSkipped})
           /\ StatusesOf(doc) = <<>> => ret = "incomplete"
           /\ StatusesOf(doc) = <<StatusCompleted, StatusSkipped>> => ret = "complete"
           /\ StatusesOf(doc) = <<StatusCompleted, StatusPending>> => ret = "incomplete"

\* C14 witness: IsComplete was applied to [Completed, Skipped] and was true.
C14_Witness ==
    /\ pc = "checked"
    /\ StatusesOf(doc) = <<StatusCompleted, StatusSkipped>>
    /\ ret = "complete"

\* C15: for every plan exactly one of these holds: NextStep returns a step,
\* IsComplete is true, the plan has no steps; and NextStep returns nil if and
\* only if the plan is complete or empty.
C15_CurrentCompleteOrEmpty ==
    pc = "checked"
        => /\ Cardinality({ c \in {"current", "complete", "empty"} :
                               \/ c = "current" /\ step # NoStep
                               \/ c = "complete" /\ ret = "complete"
                               \/ c = "empty" /\ Len(StatusesOf(doc)) = 0 }) = 1
           /\ (step = NoStep) <=> (ret = "complete" \/ Len(StatusesOf(doc)) = 0)

\* C15 witness: a plan of Completed and Skipped steps, for which NextStep
\* returned nil and IsComplete was true.
C15_Witness ==
    /\ pc = "checked"
    /\ Len(StatusesOf(doc)) >= 2
    /\ \E i \in 1..Len(StatusesOf(doc)) : StatusesOf(doc)[i] = StatusSkipped
    /\ step = NoStep /\ ret = "complete"

\* a transcript line carries a sentinel, as a whole line or embedded
HasSentinel(line) == line.exact \/ line.pfxFailed \/ line.hasComplete \/ line.hasFailed

\* the positions of the lines of a transcript that carry a sentinel
SentinelLines(out) == { i \in 1..Len(out) : HasSentinel(out[i]) }

\* the greatest element of a non-empty set of numbers
Greatest(S) == CHOOSE i \in S : \A j \in S : j <= i

\* C16: ParseResult decides by the last transcript line that carries any
\* sentinel: the outcome is the one that line alone gives; STEP_FAILED: x
\* followed later by STEP_COMPLETE is a success, STEP_COMPLETE followed
\* later by STEP_FAILED: x a failure with the reason x.
C16_LastSentinelDecides ==
    pc = "evaluated"
        => /\ SentinelLines(output) # {}
                => LET line == output[Greatest(SentinelLines(output))]
                       success == line.exact \/ (~line.pfxFailed /\ line.hasComplete)
                   IN  /\ lastUpdate.result.Success = success
                       /\ ~success => lastUpdate.result.Reason = line.r
           /\ output = <<OutFailed("boom"), OutComplete>> => lastUpdate.result.Success
           /\ output = <<OutComplete, OutFailed("boom")>>
                => ~lastUpdate.result.Success /\ lastUpdate.result.Reason = "boom"

\* C16 witness: STEP_FAILED: boom, then text, then STEP_COMPLETE was
\* evaluated as a success.
C16_Witness ==
    /\ pc = "evaluated"
    /\ output = <<OutFailed("boom"), OutText("working on it"), OutComplete>>
    /\ lastUpdate.result.Success

\* C17: a transcript in which no line contains STEP_COMPLETE or STEP_FAILED:,
\* the empty transcript included, evaluates to failure with the fixed reason,
\* and the result counts one more retry than the step had.
C17_NoSentinelIsFailure ==
    (pc = "evaluated" /\ SentinelLines(output) = {})
        => /\ ~lastUpdate.result.Success
           /\ lastUpdate.result.Reason
                = "No STEP_COMPLETE or STEP_FAILED marker found in output"
           /\ lastUpdate.result.Output = output
           /\ lastUpdate.result.RetryCount = step.RetryCount + 1

\* C17 witness: the empty transcript was evaluated as a failure.
C17_Witness ==
    /\ pc = "evaluated" /\ output = <<>>
    /\ ~lastUpdate.result.Success
    /\ lastUpdate.result.Reason = NoMarkerReason

\* the positions of the lines Parse takes for steps: the checkbox lines that
\* are not inside the Context section
RECURSIVE PlanStepLines(_, _, _)
PlanStepLines(d, i, inContext) ==
    IF i > Len(d) THEN <<>>
    ELSE IF projectNameRegex(d[i]) THEN PlanStepLines(d, i + 1, inContext)
    ELSE IF contextSectionRegex(d[i]) THEN PlanStepLines(d, i + 1, TRUE)
    ELSE IF inContext /\ ~sectionHeaderRegex(d[i]) THEN PlanStepLines(d, i + 1, TRUE)
    ELSE (IF stepLineRegex(d[i]) THEN <<i>> ELSE <<>>) \o PlanStepLines(d, i + 1, FALSE)

\* the position of the line of step k
TargetLine(d, k) == PlanStepLines(d, 1, FALSE)[k]

\* line i lies in the annotation block of step k: after a header ### Step k
\* and before the next line that starts with #
InTargetBlock(d, k, i) ==
    \E h \in 1..(i - 1) :
        /\ d[h] = BlockHeader(k)
        /\ \A j \in (h + 1)..i : ~HasPrefixHash(d[j])

\* d1 is d0 with, at most, another marker on the line of step k, other lines
\* inside the block of step k, and one run of lines added
OnlyTargetChanged(d0, d1, k) ==
    /\ Len(d1) >= Len(d0)
    /\ \E p \in 0..Len(d0) :
          LET rest == SubSeq(d1, 1, p) \o SubSeq(d1, p + 1 + Len(d1) - Len(d0), Len(d1))
          IN  \A i \in 1..Len(d0) :
                \/ rest[i] = d0[i]
                \/ i = TargetLine(d0, k) /\ rest[i] = [d0[i] EXCEPT !.m = rest[i].m]
                \/ InTargetBlock(d0, k, i)

\* C18: applying a result to step k of a document changes nothing but the
\* checkbox marker of the line of step k and lines inside the annotation
\* block of step k, or adds the new block; every other line is as it was.
C18_OnlyTargetChanged ==
    pc = "once" => OnlyTargetChanged(docBefore, doc, lastUpdate.stepNum)

\* the status a result dictates
DictatedStatus(r) ==
    IF r.Status # "" THEN r.Status
    ELSE IF r.Success THEN StatusCompleted ELSE StatusFailed

\* C19: after applying result r to step k of document d, the parsed plan has
\* as many steps as before, every step other than k is as before in all its
\* fields, and step k has the status and the notes r dictates.
C19_RoundTrip ==
    pc = "once"
        => LET before == Parse(docBefore).Steps
               after == Parse(doc).Steps
               k == lastUpdate.stepNum
           IN  /\ Len(after) = Len(before)
               /\ \A i \in 1..Len(before) : i # k => after[i] = before[i]
               /\ after[k].Status = DictatedStatus(lastUpdate.result)
               /\ after[k].Notes = NotesText(lastUpdate.result)

\* two documents are the same but for the values of their Last Run lines
SameButLastRun(a, b) ==
    /\ Len(a) = Len(b)
    /\ \A i \in 1..Len(a) : a[i] = b[i] \/ (lastRunRegex(a[i]) /\ lastRunRegex(b[i]))

\* C20: applying the same result to the same step a second time gives the
\* document of the first application, but for the Last Run value.
C20_Idempotent ==
    pc = "twice" => SameButLastRun(docBefore, doc)

\* the number of lines ## Notes of a document
NotesHeadersOf(d) == Cardinality({ i \in 1..Len(d) : HasPrefixNotesHdr(d[i]) })

\* the number of headers ### Step n of a document
BlocksOf(d, n) == Cardinality({ i \in 1..Len(d) : d[i] = BlockHeader(n) })

\* C21: starting from a document without any block, with or without a bare
\* ## Notes header, after any sequence of applications the document has at
\* most one ## Notes header and exactly one block ### Step n for each step
\* number a result was applied to (and none for the others).
C21_OneSectionOneBlockEach ==
    pc = "sequence"
        => /\ NotesHeadersOf(doc) <= 1
           /\ \A n \in StepNumbers : BlocksOf(doc, n) = IF n \in applied THEN 1 ELSE 0

\* C22: Parse numbers the steps 1..N by the position of their checkbox lines
\* in the text, whatever label Step <n>: the lines carry or omit: step i is
\* the i-th checkbox line outside the Context section and has the number i.
C22_NumberedByPosition ==
    (pc = "parsed" /\ ret = "nil")
        => /\ Len(plan.Steps) = Len(PlanStepLines(doc, 1, FALSE))
           /\ \A i \in 1..Len(plan.Steps) :
                /\ plan.Steps[i].Number = i
                /\ plan.Steps[i].Description = doc[PlanStepLines(doc, 1, FALSE)[i]].s

\* C22 witness: a text whose two checkbox lines both carry the label 7 was
\* parsed into the steps 1 and 2.
C22_Witness ==
    /\ pc = "parsed" /\ ret = "nil"
    /\ Len(plan.Steps) = 2
    /\ \A i \in 1..2 : doc[PlanStepLines(doc, 1, FALSE)[i]].n = 7
    /\ plan.Steps[1].Number = 1 /\ plan.Steps[2].Number = 2

\* C23: Parse returns a Plan and no error for every text.
C23_ParseNeverFails ==
    pc = "parsed" => ret = "nil"

\* the position of the first ## Context line of a text, 0 when it has none
FirstContextLine(d) ==
    IF \E i \in 1..Len(d) : contextSectionRegex(d[i])
    THEN CHOOSE i \in 1..Len(d) :
            /\ contextSectionRegex(d[i])
            /\ \A j \in 1..(i - 1) : ~contextSectionRegex(d[j])
    ELSE 0

\* the position of the first section line ## <word> after position a, 0 when
\* there is none
NextSectionLine(d, a) ==
    IF \E i \in (a + 1)..Len(d) : sectionHeaderRegex(d[i])
    THEN CHOOSE i \in (a + 1)..Len(d) :
            /\ sectionHeaderRegex(d[i])
            /\ \A j \in (a + 1)..(i - 1) : ~sectionHeaderRegex(d[j])
    ELSE 0

\* C30: the plan's context is the lines strictly between the first
\* ## Context line and the next section line ## <word>, trimmed of leading
\* and trailing blank lines; a later Context section does not change it.
C30_ContextIsFirstSection ==
    (pc = "parsed" /\ ret = "nil" /\ FirstContextLine(doc) # 0
        /\ NextSectionLine(doc, FirstContextLine(doc)) # 0)
        => plan.Context
             = TrimSpaceLines(SubSeq(doc, FirstContextLine(doc) + 1,
                                     NextSectionLine(doc, FirstContextLine(doc)) - 1))

\* the position of the header ### Step n of a document that has one
HeaderLineOf(d, n) == CHOOSE i \in 1..Len(d) : d[i] = BlockHeader(n)

\* the last line of the block whose header is line h: the last line that is
\* not blank before the next line starting with # (or the end)
BlockEnd(d, h) ==
    Greatest({ j \in h..Len(d) :
                 /\ ~IsBlank(d[j])
                 /\ \A m \in (h + 1)..j : ~HasPrefixHash(d[m]) })

\* the lines of the block of step n
BlockSpan(d, n) == SubSeq(d, HeaderLineOf(d, n), BlockEnd(d, HeaderLineOf(d, n)))

\* the steps that have a block
BlockSteps(d) == { n \in StepNumbers : BlocksOf(d, n) = 1 }

\* the last line of the last block of a document with blocks
LastBlockEnd(d) ==
    Greatest({ BlockEnd(d, HeaderLineOf(d, n)) : n \in BlockSteps(d) })

\* C26: when the document has blocks but none for the target step k, the
\* new block ### Step k goes in after the last line of the last block (a
\* blank line between), and every block that was there keeps its lines,
\* contiguous, and Parse gives its step the same notes and last run.
C26_InsertAfterLastBlock ==
    (pc = "once" /\ BlockSteps(docBefore) # {}
        /\ BlocksOf(docBefore, lastUpdate.stepNum) = 0)
        => /\ BlocksOf(doc, lastUpdate.stepNum) = 1
           /\ HeaderLineOf(doc, lastUpdate.stepNum) = LastBlockEnd(docBefore) + 2
           /\ \A n \in BlockSteps(docBefore) :
                /\ BlocksOf(doc, n) = 1
                /\ BlockSpan(doc, n) = BlockSpan(docBefore, n)
                /\ n <= Len(Parse(docBefore).Steps)
                     => /\ Parse(doc).Steps[n].Notes = Parse(docBefore).Steps[n].Notes
                        /\ Parse(doc).Steps[n].LastRun = Parse(docBefore).Steps[n].LastRun

\* the transcript lines that are not empty and hold no sentinel
Qualifying(out) == { i \in 1..Len(out) : out[i].s # "" /\ ~HasSentinel(out[i]) }

\* a line cut to 100 characters, the last three of them "..."
CutTo100(line) == IF line.long THEN line.s \o "<cut at 97>..." ELSE line.s

\* the notes the claim gives for a result
ClaimedNotes(r) ==
    IF ~r.Success /\ r.Reason # "" THEN "Failed: " \o r.Reason
    ELSE IF Qualifying(r.Output) # {}
    THEN CutTo100(r.Output[Greatest(Qualifying(r.Output))])
    ELSE IF r.Success THEN "Completed successfully" ELSE "(no output)"

\* C27: the block of step k holds, after a result was applied to step k, the
\* notes 'Failed: <reason>' for a failure with a reason, otherwise the last
\* non-empty transcript line without a sentinel (cut to 100 characters),
\* and without such a line 'Completed successfully' for a success and
\* '(no output)' for a failure.
C27_StoredNotes ==
    pc = "once"
        => \E i \in 1..Len(doc) :
              /\ InTargetBlock(doc, lastUpdate.stepNum, i)
              /\ doc[i] = NotesLine(ClaimedNotes(lastUpdate.result))

\* the invocation in flight re-invokes the step whose last attempt, a
\* failure with a reason, was the last outcome persisted
RetryOfFailedAttempt ==
    /\ pc = "invoking"
    /\ lastUpdate.how \in {"result", "timeout"}
    /\ lastUpdate.ok
    /\ lastUpdate.stepNum = step.Number
    /\ ~lastUpdate.result.Success
    /\ lastUpdate.result.Reason # ""

\* C28: when the loop re-invokes a step after a failed attempt with reason
\* R, the prompt of the new invocation has the section Previous Attempt
\* with the notes 'Failed: R' that the attempt persisted.
C28_RetryPromptCarriesNotes ==
    RetryOfFailedAttempt
        => promptText.PreviousAttempt = << "Failed: " \o lastUpdate.result.Reason >>

\* C29: an interrupt that arrives during a backoff wait leaves the wait for
\* the exit, with the document and the invocations as they were; and once
\* the run context is cancelled no wait and no invocation is started, and
\* the loop top is left for the exit only.
C29_InterruptInBackoffStops ==
    [][ /\ (pc = "backoff" /\ ctxDone')
            => (pc' \in {"backoff", "exit"} /\ doc' = doc /\ invoked' = invoked)
        /\ ctxDone => (pc' \in {"backoff", "invoking"} => pc' = pc)
        /\ (ctxDone /\ pc = "top")
            => (pc' \in {"top", "exit"} /\ doc' = doc /\ invoked' = invoked) ]_vars

\* C29 witness: the interrupt arrived during a backoff wait and the loop
\* has stopped, the step of the wait not invoked.
C29_Witness ==
    /\ interruptedAt = "backoff"
    /\ pc = "exit"
    /\ ret = "context canceled"
    /\ step # NoStep
    /\ ~waited

\* C24: the result evaluated for an invocation (and with it the retry count
\* persisted and the loop's next transition) is the result of the lines the
\* process printed, whether the monitor observes the stream or not, an
\* advisory fired or not, the console took the lines or not; and the
\* monitor's Write returns what the underlying writer returned.
C24_MonitorDoesNotInterfere ==
    /\ pc = "evaluated" => stream.result = EvaluatedResult(step, stream.emitted)
    /\ stream.writeRet = stream.sinkRet

\* C24 witness: a monitored invocation in which an advisory fired and a
\* later Write failed was evaluated as a success.
C24_Witness ==
    /\ pc = "evaluated"
    /\ stream.monitored
    /\ stream.console # <<>>
    /\ stream.writeRet[2] # "nil"
    /\ stream.result.Success

\* the step is running, no advisory has fired in it, and no line has been
\* observed for 30 seconds, counted from the start of the step when no line
\* has arrived yet
ClaimStalled ==
    /\ pc = "streaming"
    /\ stream.monitored
    /\ stream.console = <<>>
    /\ clock - (IF stream.lastSeen = 0 THEN stream.stepStart ELSE stream.lastSeen)
         >= stallAfter

\* C25: whenever the step is stalled in this sense, the periodic check
\* raises a stall advisory at its next tick.
C25_StallAdvisoryAtNextTick ==
    [][ (ClaimStalled /\ pd'.checkTicker # pd.checkTicker)
            => (stream'.console # <<>> /\ stream'.console[1].kind = "stall") ]_vars

\* the lines of kind k inside the block of step n
FieldLines(d, n, k) == { i \in 1..Len(d) : InTargetBlock(d, n, i) /\ d[i].kind = k }

\* the value a block gives a field: that of its last line of the kind
LastRunOf(d, n) ==
    IF FieldLines(d, n, "lastrun") = {} THEN 0
    ELSE LET v == d[Greatest(FieldLines(d, n, "lastrun"))].n
         IN  IF v >= 1 THEN v ELSE 0

NotesTextOf(d, n) ==
    IF FieldLines(d, n, "notes") = {} THEN ""
    ELSE LET v == d[Greatest(FieldLines(d, n, "notes"))].s
         IN  IF v = "(none)" THEN "" ELSE v

RetriesOf(d, n) ==
    IF FieldLines(d, n, "retries") = {} THEN 0
    ELSE d[Greatest(FieldLines(d, n, "retries"))].n

\* C31: Parse gives the step numbered n the fields of the block ### Step n:
\* a field the block lacks leaves the notes empty, the retry count 0 and the
\* last run unset, a timestamp that does not parse leaves the last run
\* unset, and a block whose number no checkbox line has changes no step.
C31_BlocksMergedByNumber ==
    (pc = "parsed" /\ ret = "nil")
        => /\ Len(plan.Steps) = Len(PlanStepLines(doc, 1, FALSE))
           /\ \A i \in 1..Len(plan.Steps) :
                LET n == plan.Steps[i].Number
                IN  /\ plan.Steps[i].Notes = NotesTextOf(doc, n)
                    /\ plan.Steps[i].RetryCount = RetriesOf(doc, n)
                    /\ plan.Steps[i].LastRun = LastRunOf(doc, n)
                    /\ plan.Steps[i].Status = parseCheckbox(doc[PlanStepLines(doc, 1, FALSE)[i]].m)

\* C31 witness: a plan of two steps was parsed from a text whose block for
\* step 1 has a timestamp that does not parse and no retry count, and step
\* 2 has no block.
C31_Witness ==
    /\ pc = "parsed" /\ ret = "nil"
    /\ Len(plan.Steps) = 2
    /\ \E i \in 1..Len(doc) : doc[i] = LastRunLine(Malformed)
    /\ plan.Steps[1].LastRun = 0
    /\ plan.Steps[1].Notes = "Failed: boom"
    /\ plan.Steps[2].Notes = ""

\* the checkbox line the writer's first pass rewrites for step k
WriterLine(d, k) ==
    CHOOSE i \in 1..Len(d) : stepLineRegex(d[i]) /\ StepOrdinal(d, i) = k

\* C37: the checkbox line the writer rewrites for step k is the line Parse
\* numbered k.
C37_WriterAndParserAgreeOnLine ==
    pc = "once"
        => /\ WriterLine(docBefore, lastUpdate.stepNum)
                = TargetLine(docBefore, lastUpdate.stepNum)
           /\ docBefore[WriterLine(docBefore, lastUpdate.stepNum)].s
                = Parse(docBefore).Steps[lastUpdate.stepNum].Description

\* C38: updateStepInContent returns a document for every text, step number
\* and result: it never panics.
C38_NeverCrashes == pc # "panicked"

\* the invocation has returned no error and a transcript whose last
\* sentinel is the success sentinel
ReturnedSuccess == pc = "returned" /\ runErr = "nil" /\ ParseResult(output).Success

\* C39: when an invocation has returned no error and a transcript whose
\* last sentinel is the success sentinel, the outcome persisted is the
\* success and the document then reads the step as Completed, whether or
\* not the deadline of the step has expired meanwhile (a failure to read or
\* write the file aside).
C39_SuccessIsPersisted ==
    [][ (ReturnedSuccess /\ pc' # "returned" /\ ret' \notin IOFailures)
            => /\ lastUpdate'.how = "result"
               /\ lastUpdate'.result.Success
               /\ Parse(doc').Steps[step.Number].Status = StatusCompleted ]_vars

NonBlank(lines) == SelectSeq(lines, LAMBDA l : l.s # "")

\* C33: after any sequence of Write and Reset calls the buffer holds at most
\* ten lines, and they are the most recent non-blank lines written since
\* the last reset, in the order they arrived.
C33_BufferIsRecentTail ==
    pc = "buffering"
        => /\ Len(pd.recentLines) <= maxRecentLines
           /\ pd.recentLines = LastN(NonBlank(stream.emitted), maxRecentLines)

C33_Witness ==
    /\ pc = "buffering"
    /\ stream.earlier
    /\ Len(NonBlank(stream.emitted)) > maxRecentLines
    /\ Len(NonBlank(stream.emitted)) < Len(stream.emitted)
    /\ Len(pd.recentLines) = maxRecentLines

\* C32: between two resets of the detector at most one advisory is printed,
\* prompt or stall, however the Write calls of the two stream readers and
\* the ticks of the stall check interleave.
C32_OneAdvisoryBetweenResets ==
    pc = "observing" => Len(stream.console) <= 1

C32_Witness ==
    /\ pc = "observing"
    /\ Len(stream.console) = 1
    /\ \A r \in Readers :
          /\ stream.readers[r].pc \in {"unlock", "idle"}
          /\ stream.readers[r].left = 0
          /\ matchesPromptPattern(stream.readers[r].line)

\* a transcript of whole lines: a line, its newline, a line, its newline
WholeLines(t) ==
    /\ Len(t) % 2 = 0
    /\ \A i \in 1..Len(t) : (t[i] = "\n") <=> (i % 2 = 0)

\* C35: in every agent implementation the two stream readers never append
\* to the transcript buffer at the same time, and the transcript Run
\* returns is a sequence of whole lines.
C35_AppendsAreExclusive ==
    /\ ~(\A r \in Readers : Appending(stream, r))
    /\ pc = "runReturned" => WholeLines(stream.transcript)

\* the lines of a transcript
LinesOf(t) == { t[i] : i \in { j \in 1..Len(t) : t[j] # "\n" } }

\* C36: in every agent implementation Run returns only after both stream
\* readers have reached the end of their stream and the process has exited,
\* and the transcript it returns has every line the process wrote.
C36_RunReturnsAfterDrain ==
    [][ (pc # "runReturned" /\ pc' = "runReturned")
            => /\ stream.exited
               /\ \A r \in Readers : stream.readers[r].pc = "eof"
               /\ stream.wrote \subseteq LinesOf(stream'.transcript) ]_vars

====
